---------------------------- MODULE Spec2Model ----------------------------
(***************************************************************************)
(* OpenHDM: the phased timestepping engine of Domain (src/src/domain.h),   *)
(* its ControlPoint and Pool (src/src/threading.{h,cpp}), one worker per   *)
(* domain as spawned by Project::initiateTimestepping; the run of a        *)
(* Project (src/src/project.h) from its domains list to postProcess; the   *)
(* processor budget of check_nProc and setConcurrency; the unit storage of *)
(* Grid (src/src/grid.h).                                                  *)
(*                                                                         *)
(* In the timestepping engine domain 0 is the parent, domains 1..nChild    *)
(* are its children.                                                       *)
(***************************************************************************)
EXTENDS Integers, Sequences, FiniteSets, TLC

\* ------------------------------------------------------------------ bounds
MaxChildren == 2      \* children of the parent: 0..MaxChildren
MaxPhases == 3        \* registered phases per domain: 1..MaxPhases
MaxNts == 2           \* timesteps: 1..MaxNts
MaxProcTotal == 4     \* nProcTotal given to Project::run: 0..MaxProcTotal
MaxProcChild == 0     \* nProcChild given to a run that is timestepped
MaxArgChild == 2      \* nProcChild given to Project::run: 0..MaxArgChild
MaxHardware == 4      \* std::thread::hardware_concurrency()
MaxSeqNts == 3        \* timesteps of a project of one domain: 1..MaxSeqNts
MaxDomains == 3       \* rows of the domains list of a project input
MaxInsert == 1        \* insertPhase calls made by one hook of a domain
MaxDirs == 2          \* output directories named in a project input
MaxUnits == 3         \* units of one type offered to a Grid
MaxGridOps == 5       \* calls of the member functions of a Grid
MaxParentUnits == 2   \* units of the parent grid a child grid may copy
MaxCopies == 2        \* copies of one parent unit stored at a time
MaxPatches == 2       \* patches of a Grid at a time
MaxPatchUnits == 2    \* units offered to a Patch
MaxHandleUnits == 2   \* units the grid keeps a cref for
MaxMrefs == 3         \* mref objects that exist at a time
MaxHandleOps == 4     \* calls made on the handles

\* ------------------------------------------------- unsigned int arithmetic
\* ControlPoint::val is an unsigned int.  A value is held as two 16-bit
\* limbs <<hi, lo>>, so that the arithmetic below is exactly arithmetic
\* modulo 2^32.
Half == 256 * 256

U32(n) == <<(n \div Half) % Half, n % Half>>

UAdd_noWrap(a, b) ==
    LET lo == a[2] + b[2]
    IN  <<a[1] + b[1] + (lo \div Half), lo % Half>>
UAdd(a, b) ==
    LET lo == a[2] + b[2]
        hi == a[1] + b[1] + (lo \div Half)
    IN  <<hi % Half, lo % Half>>

USub(a, b) ==
    LET lo == a[2] - b[2]
        borrow == IF lo < 0 THEN 1 ELSE 0
        hi == a[1] - b[1] - borrow
    IN  <<(hi + Half) % Half, (lo + Half) % Half>>

\* a % n for an unsigned a and a small n > 0
UMod(a, n) == (((a[1] % n) * (Half % n)) + (a[2] % n)) % n

\* unsigned int val = -1
InitialVal == USub(U32(0), U32(1))

\* a < b on unsigned ints
ULess(a, b) == a[1] < b[1] \/ (a[1] = b[1] /\ a[2] < b[2])
\* std::max on unsigned ints
UMax(a, b) == IF ULess(a, b) THEN b ELSE a
\* unsigned(a/2.): the double a/2 truncated towards zero
UHalve(a) == <<a[1] \div 2, (a[2] + (a[1] % 2) * Half) \div 2>>
\* the number an unsigned int below 2^31 stands for
ToNat(a) == a[1] * Half + a[2]

\* ------------------------------------------------------------------- state
VARIABLES
    nChild,     \* Domain::childDomains.size() of the parent
    ncp,        \* ncp[d]: ControlPoint::ncp of domain d (= phases.size())
    nts,        \* Project::nts, handed to every worker
    nProcs,     \* Pool::nProcs of the parent's threadPool
    remaining,  \* Pool::remainingThreads
    mtxOwner,   \* holder of the parent's std::mutex *mtx, or NoOwner
    val,        \* val[d]: ControlPoint::val of domain d
    done,       \* done[d]: ControlPoint::done of domain d
    pc,         \* pc[d]: position of d's worker
    ts,         \* ts[d]: loop variable ts of d's timestepping loop
    ph,         \* ph[d]: index of the phase the inner loop is at
    calls,      \* calls[d]: the phase invocations made so far, <<index, ts>>
    held        \* held[d]: permits of the Pool d's worker holds

VARIABLES
    hardware,   \* std::thread::hardware_concurrency(), an unsigned int
    argTotal,   \* nProcTotal as given to Project::run
    argChild,   \* nProcChild as given to Project::run
    nDomains,   \* Project::domains.size(); the first is the parent of the rest
    cfgTotal,   \* nProcTotal after check_nProc, handed to setConcurrency
    cfgChild,   \* nProcChild after check_nProc, handed to setConcurrency
    poolSize,   \* Pool::nProcs of the parent's threadPool, NoPool if nullptr
    nProcIntra, \* Domain::nProc_intraDomain of the parent
    bpc         \* position inside Project::setDomainConcurrency

VARIABLES
    table,          \* table[i]: list position of the parent that
                    \* Project::hierarchyTable names for domains[i], 0 if none
    stage,          \* the statement of Project::run the main thread is at
    idx,            \* position in domains of the loop the main thread is in
    parentOf,       \* parentOf[i]: Domain::parent, 0 for nullptr
    childDomains,   \* childDomains[i]: Domain::childDomains
    hierarchySet,   \* hierarchySet[i]: Domain::hierarchySet
    configured,     \* the domains setConcurrency has been called on
    childCPs,       \* childCPs[i]: Domain::childCPs, each reference as the
                    \* domain whose cp it refers to
    threadPool,     \* threadPool[i]: the domain whose Pool i points to, 0 if
                    \* nullptr
    status,         \* status[i]: the last hook of domain i the Project called
    phasesOf,       \* phasesOf[i]: Domain::phases.size() = cp.ncp
    ntsOf,          \* ntsOf[i]: what get_nts() of domain i returns
    projNts,        \* Project::nts
    projNPhases,    \* Project::nPhases, an unsigned short
    thread,         \* thread[i]: state of the i-th entry of Project::threads
    invoked,        \* invoked[i]: the worker of i has called a phase
    postProcessed   \* postProcessed[i]: postProcess of domain i has run

VARIABLES
    domains,        \* Project::domains, each domain as [id, outputDir]
    hierarchyTable, \* Project::hierarchyTable as pairs <<domainID, parentID>>
    row,            \* the row of the domains list processed last
    cstage          \* position inside the constructor of Project

VARIABLES
    units,      \* the std::vector of units of one type in Grid::unitsTuple
    unitPos,    \* unitPos[u]: Unit::pos of unit u
    upos,       \* Grid::upos of the type
    vpos,       \* Grid::vpos of the type
    id2pos,     \* Grid::id2pos of the type
    gstage,     \* "exit" after Report::error
    nOps,       \* number of calls of member functions of the Grid made
    gridParent, \* Grid::parent is not nullptr
    patches,    \* Grid::patches, each patch as [id, upToDate, locked]
    vpids,      \* Grid::vpids
    cp2pp,      \* Grid::cp2pp of the type
    pp2cp       \* Grid::pp2cp of the type

VARIABLES
    unitData,   \* unitData[u]: the members of the Unit u
    unitptrs,   \* the std::vector of pointers to units of one type in
                \* Patch::unitptrsTuple
    patchId,    \* Patch::id of the patch
    ustage      \* "exit" after Report::error

VARIABLES
    crefs,      \* crefs[c]: the members of the cref object c
    mrefs,      \* mrefs[m]: the members of the mref object m
    hstage,     \* "crashed" after a call on a handle ended the program
    nHandleOps  \* number of calls made on the handles

engineVars == <<nChild, ncp, nts, nProcs, remaining, mtxOwner, val, done, pc,
                ts, ph, calls, held>>
budgetVars == <<hardware, argTotal, argChild, nDomains, cfgTotal, cfgChild,
                poolSize, nProcIntra, bpc>>
projectVars == <<table, stage, idx, parentOf, childDomains, hierarchySet,
                 configured, childCPs, threadPool, status, phasesOf, ntsOf,
                 projNts, projNPhases, thread, invoked, postProcessed>>
constructVars == <<domains, hierarchyTable, row, cstage>>
patchVars == <<unitData, unitptrs, patchId, ustage>>
handleVars == <<crefs, mrefs, hstage, nHandleOps>>
gridVars == <<units, unitPos, upos, vpos, id2pos, gstage, nOps, gridParent,
              patches, vpids, cp2pp, pp2cp>>
vars == <<engineVars, budgetVars, projectVars, constructVars, gridVars,
          patchVars, handleVars>>

Parent == 0
NoOwner == 0 - 1
Domains == 0..nChild
Children == 1..nChild

isParent(d) == d = Parent

\* ----------------------------------------------------- setConcurrency
Max(a, b) == IF a > b THEN a ELSE b

\* Project::check_nProc: the pair <<nProcTotal, nProcChild>> it leaves in its
\* reference arguments, for hw = hardware_concurrency() and nd = domains.size()
check_nProc(hw, nProcTotal, nProcChild, nd) ==
    LET total == IF ULess(hw, nProcTotal) THEN USub(hw, U32(1))
                 ELSE nProcTotal
        child == IF ~ULess(nProcChild, total) THEN USub(total, U32(1))
                 ELSE nProcChild
    IN  <<total, IF nd = 0 /\ ULess(U32(0), child) THEN U32(0) ELSE child>>

\* the size of the Pool the parent creates when it has children
nProc_interDomain(nProcTotal, nProcChild) ==
    IF ULess(U32(0), nProcChild) THEN UAdd(nProcChild, U32(1))
    ELSE UMax(U32(1), UHalve(nProcTotal))

\* nProc_intraDomain of a parent with children
nProc_intraDomain(nProcTotal, nProcChild) ==
    UMax(U32(1),
         UAdd(USub(nProcTotal, nProc_interDomain(nProcTotal, nProcChild)),
              U32(1)))

\* nProc_intraDomain of a parent without children
nProc_intraDomain_alone(nProcTotal) == UMax(U32(1), nProcTotal)

\* threadPool of a domain that never made one
NoPool == <<>>

\* ------------------------------------------------- the processor budget
\* Project::setDomainConcurrency of a project whose first domain is the
\* parent of all the others, for every pair of arguments of Project::run.
UINT_MAX == USub(U32(0), U32(1))
Unsigneds(max) == {U32(n) : n \in 0..max} \cup {UINT_MAX}

BudgetOff ==
    /\ hardware = U32(0) /\ argTotal = U32(0) /\ argChild = U32(0)
    /\ nDomains = 0
    /\ cfgTotal = U32(0) /\ cfgChild = U32(0)
    /\ poolSize = NoPool /\ nProcIntra = U32(1)
    /\ bpc = "off"

EngineOff ==
    /\ nChild = 0 /\ nts = 1 /\ nProcs = 0 /\ remaining = 0
    /\ mtxOwner = NoOwner
    /\ ncp = [d \in {Parent} |-> 1]
    /\ val = [d \in {Parent} |-> InitialVal]
    /\ done = [d \in {Parent} |-> TRUE]
    /\ pc = [d \in {Parent} |-> "off"]
    /\ ts = [d \in {Parent} |-> 1]
    /\ ph = [d \in {Parent} |-> 0]
    /\ calls = [d \in {Parent} |-> <<>>]
    /\ held = [d \in {Parent} |-> 0]

ProjectOff ==
    /\ table = <<>> /\ stage = "off" /\ idx = 0
    /\ parentOf = <<>> /\ childDomains = <<>> /\ hierarchySet = <<>>
    /\ configured = {} /\ childCPs = <<>>
    /\ threadPool = <<>> /\ status = <<>>
    /\ phasesOf = <<>> /\ ntsOf = <<>>
    /\ projNts = 0 /\ projNPhases = 0
    /\ thread = <<>> /\ invoked = <<>> /\ postProcessed = <<>>

ConstructOff ==
    /\ domains = <<>> /\ hierarchyTable = {} /\ row = <<>>
    /\ cstage = "off"

GridOff ==
    /\ units = <<>> /\ unitPos = <<>> /\ upos = <<>> /\ vpos = <<>>
    /\ id2pos = <<>> /\ gstage = "off" /\ nOps = 0
    /\ gridParent = FALSE /\ patches = <<>> /\ vpids = <<>>
    /\ cp2pp = <<>> /\ pp2cp = <<>>

PatchOff ==
    /\ unitData = <<>> /\ unitptrs = <<>> /\ patchId = 0 /\ ustage = "off"

HandleOff ==
    /\ crefs = <<>> /\ mrefs = <<>> /\ hstage = "off"
    /\ nHandleOps = 0

BudgetInit ==
    /\ hardware \in {U32(n) : n \in 0..MaxHardware}
    /\ argTotal \in Unsigneds(MaxProcTotal)
    /\ argChild \in Unsigneds(MaxArgChild)
    /\ nDomains \in 0..(MaxChildren + 1)
    /\ cfgTotal = argTotal /\ cfgChild = argChild
    /\ poolSize = NoPool
    /\ nProcIntra = U32(1)
    /\ bpc = "run"
    /\ EngineOff /\ ProjectOff /\ ConstructOff /\ GridOff
    /\ PatchOff /\ HandleOff

\* check_nProc(nProcTotal, nProcChild) on the arguments of the run
CheckNProc ==
    /\ bpc = "run"
    /\ LET given == check_nProc(hardware, argTotal, argChild, nDomains)
       IN  cfgTotal' = given[1] /\ cfgChild' = given[2]
    /\ bpc' = "checked"
    /\ UNCHANGED <<hardware, argTotal, argChild, nDomains, poolSize,
                   nProcIntra>>

\* domain->setConcurrency(nProcTotal, nProcChild) of the parent
SetConcurrency ==
    /\ bpc = "checked" /\ nDomains >= 1
    /\ IF nDomains = 1
       THEN /\ nProcIntra' = nProc_intraDomain_alone(cfgTotal)
            /\ poolSize' = NoPool
       ELSE /\ nProcIntra' = nProc_intraDomain(cfgTotal, cfgChild)
            /\ poolSize' = nProc_interDomain(cfgTotal, cfgChild)
    /\ bpc' = "configured"
    /\ UNCHANGED <<hardware, argTotal, argChild, nDomains, cfgTotal,
                   cfgChild>>

\* the loop over an empty domains list
NoDomainToConfigure ==
    /\ bpc = "checked" /\ nDomains = 0
    /\ bpc' = "configured"
    /\ UNCHANGED <<hardware, argTotal, argChild, nDomains, cfgTotal,
                   cfgChild, poolSize, nProcIntra>>

BudgetNext ==
    /\ CheckNProc \/ SetConcurrency \/ NoDomainToConfigure
    /\ UNCHANGED <<engineVars, projectVars, constructVars, gridVars,
                   patchVars, handleVars>>

BudgetSpec == BudgetInit /\ [][BudgetNext]_vars

\* ------------------------------------------------------------ ControlPoint
increment_noWrap(v, n) == UAdd(v, U32(1))
increment(v, n) == U32(UMod(UAdd(v, U32(1)), n))

\* (ncp + a - b) % ncp as the code evaluates it on unsigned ints
Gap(n, a, b) == UMod(USub(UAdd(U32(n), a), b), n)

\* the predicate of the parent's condition->wait
ParentPredicate_lag1 ==
    \A c \in Children : ~(Gap(ncp[Parent], val[Parent], val[c]) > 1)
ParentPredicate_some ==
    \E c \in Children : ~(Gap(ncp[Parent], val[Parent], val[c]) > 0)
ParentPredicate_done ==
    \A c \in Children :
        ~(Gap(ncp[Parent], val[Parent], val[c]) > 0) /\ done[c]
ParentPredicate ==
    \A c \in Children : ~(Gap(ncp[Parent], val[Parent], val[c]) > 0)

\* the predicate of a child's condition->wait
ChildPredicate_noDone(c) == Gap(ncp[c], val[Parent], val[c]) >= 1
ChildPredicate_same(c) ==
    \/ Gap(ncp[c], val[Parent], val[c]) = 0 /\ done[Parent]
    \/ Gap(ncp[c], val[Parent], val[c]) = 1 /\ done[Parent]
ChildPredicate(c) ==
    \/ Gap(ncp[c], val[Parent], val[c]) > 1
    \/ Gap(ncp[c], val[Parent], val[c]) = 1 /\ done[Parent]

Predicate(d) == IF isParent(d) THEN ParentPredicate ELSE ChildPredicate(d)

\* ------------------------------------------------------------------- Init
Init ==
    /\ nChild \in 0..MaxChildren
    /\ \E n \in 1..MaxPhases : ncp = [d \in Domains |-> n]
    /\ nts \in 1..(IF nChild = 0 THEN MaxSeqNts ELSE MaxNts)
    /\ \E hw \in 1..MaxHardware, nProcTotal \in 0..MaxProcTotal,
          nProcChild \in 0..MaxProcChild :
          LET given == check_nProc(U32(hw), U32(nProcTotal), U32(nProcChild),
                                   nChild + 1)
          IN  nProcs = IF nChild = 0 THEN 0
                       ELSE ToNat(nProc_interDomain(given[1], given[2]))
    /\ remaining = nProcs
    /\ mtxOwner = NoOwner
    /\ val = [d \in Domains |-> InitialVal]
    /\ done = [d \in Domains |-> TRUE]
    /\ pc = [d \in Domains |-> "start"]
    /\ ts = [d \in Domains |-> 1]
    /\ ph = [d \in Domains |-> 0]
    /\ calls = [d \in Domains |-> <<>>]
    /\ held = [d \in Domains |-> 0]
    /\ BudgetOff /\ ProjectOff /\ ConstructOff /\ GridOff
    /\ PatchOff /\ HandleOff


\* --------------------------------------------------- condition variables
\* A worker inside condition->wait has pc "waiting"; the parent waits on its
\* own condition, every child on the parent's condition4children.

\* condition4children->notify_all()
NotifyChildren(p) ==
    [d \in Domains |->
        IF d \in Children /\ p[d] = "waiting" THEN "woken" ELSE p[d]]

\* parent->condition->notify_one(): the parent is the only waiter there
NotifyParent_lost(p) == p
NotifyParent(p) ==
    [p EXCEPT ![Parent] = IF @ = "waiting" THEN "woken" ELSE @]

\* Pool::cond.notify_all()
NotifyPool(p) ==
    [d \in Domains |-> IF p[d] = "poolWait" THEN "acquire" ELSE p[d]]

\* ---------------------------------------------------------- timestepping
\* Domain::timestepping: the choice of the routine
RunsSequentially_never(d) == FALSE
RunsSequentially(d) == isParent(d) /\ nChild = 0

Timestepping(d) ==
    /\ pc[d] = "start"
    /\ pc' = [pc EXCEPT ![d] =
                IF RunsSequentially(d)
                THEN "sequential" ELSE "phaseCheck"]
    /\ UNCHANGED <<nChild, ncp, nts, nProcs, remaining, mtxOwner, val, done,
                   ts, ph, calls, held>>

\* the position after one pass of the inner loop over phases
NextPh(d) == IF ph[d] + 1 < ncp[d] THEN ph[d] + 1 ELSE 0
NextTs_everyPass(d) == ts[d] + 1
NextTs(d) == IF ph[d] + 1 < ncp[d] THEN ts[d] ELSE ts[d] + 1
LoopEnds(d) == NextTs(d) > nts

\* Domain::sequentialTimestepping: one pass of the inner loop, phase(ts)
SequentialPhase(d) ==
    /\ pc[d] = "sequential"
    /\ calls' = [calls EXCEPT ![d] = Append(@, <<ph[d], ts[d]>>)]
    /\ ph' = [ph EXCEPT ![d] = NextPh(d)]
    /\ ts' = [ts EXCEPT ![d] = NextTs(d)]
    /\ pc' = [pc EXCEPT ![d] = IF LoopEnds(d) THEN "done" ELSE "sequential"]
    /\ UNCHANGED <<nChild, ncp, nts, nProcs, remaining, mtxOwner, val, done,
                   held>>

\* Domain::phaseCheck up to the call of threadPool->acquire(): the lock of
\* *mtx, the wait predicate, and either the wait (which unlocks *mtx) or
\* cp.increment() and the notification, with *mtx kept locked.
PhaseCheck(d) ==
    /\ pc[d] \in {"phaseCheck", "woken"}
    /\ mtxOwner = NoOwner
    /\ IF Predicate(d)
       THEN /\ val' = [val EXCEPT ![d] = increment(@, ncp[d])]
            /\ done' = [done EXCEPT ![d] = FALSE]
            /\ mtxOwner' = d
            /\ pc' = IF isParent(d)
                     THEN NotifyChildren([pc EXCEPT ![d] = "acquire"])
                     ELSE NotifyParent([pc EXCEPT ![d] = "acquire"])
       ELSE /\ pc' = [pc EXCEPT ![d] = "waiting"]
            /\ UNCHANGED <<val, done, mtxOwner>>
    /\ UNCHANGED <<nChild, ncp, nts, nProcs, remaining, ts, ph, calls, held>>

\* the predicate of cond.wait in Pool::acquire
PoolAcquire_noWait == TRUE
PoolPredicate == remaining > 0

\* remainingThreads++ in Pool::release
PoolRelease_twice == remaining + 2
Released == remaining + 1

\* Pool::acquire, called with *mtx locked; on its return phaseCheck returns
\* and unlocks *mtx.
PoolAcquire(d) ==
    /\ pc[d] = "acquire"
    /\ IF PoolPredicate
       THEN /\ remaining' = remaining - 1
            /\ held' = [held EXCEPT ![d] = @ + 1]
            /\ mtxOwner' = NoOwner
            /\ pc' = [pc EXCEPT ![d] = "phase"]
       ELSE /\ pc' = [pc EXCEPT ![d] = "poolWait"]
            /\ UNCHANGED <<remaining, held, mtxOwner>>
    /\ UNCHANGED <<nChild, ncp, nts, nProcs, val, done, ts, ph, calls>>

\* phase(ts) in Domain::concurrentTimestepping, and Pool::release, the first
\* statement of Domain::completePhase, which follows its return
RunPhase(d) ==
    /\ pc[d] = "phase"
    /\ calls' = [calls EXCEPT ![d] = Append(@, <<ph[d], ts[d]>>)]
    /\ remaining' = Released
    /\ held' = [held EXCEPT ![d] = @ - 1]
    /\ pc' = NotifyPool([pc EXCEPT ![d] = "markDone"])
    /\ UNCHANGED <<nChild, ncp, nts, nProcs, mtxOwner, val, done, ts, ph>>

\* the rest of Domain::completePhase: lock *mtx, cp.markDone(), notify,
\* unlock; then the loops of concurrentTimestepping move on.
MarkDone(d) ==
    /\ pc[d] = "markDone"
    /\ mtxOwner = NoOwner
    /\ done' = [done EXCEPT ![d] = TRUE]
    /\ ph' = [ph EXCEPT ![d] = NextPh(d)]
    /\ ts' = [ts EXCEPT ![d] = NextTs(d)]
    /\ LET own == [pc EXCEPT ![d] =
                     IF LoopEnds(d) THEN "done" ELSE "phaseCheck"]
       IN  pc' = IF isParent(d) THEN NotifyChildren(own)
                 ELSE NotifyParent(own)
    /\ UNCHANGED <<nChild, ncp, nts, nProcs, remaining, mtxOwner, val, held,
                   calls>>

\* a wait of std::condition_variable may return without a notification
SpuriousWakeup(d) ==
    /\ \/ pc[d] = "waiting" /\ pc' = [pc EXCEPT ![d] = "woken"]
       \/ pc[d] = "poolWait" /\ pc' = [pc EXCEPT ![d] = "acquire"]
    /\ UNCHANGED <<nChild, ncp, nts, nProcs, remaining, mtxOwner, val, done,
                   ts, ph, calls, held>>

\* the steps a worker takes by itself
Worker(d) ==
    \/ Timestepping(d)
    \/ SequentialPhase(d)
    \/ PhaseCheck(d)
    \/ PoolAcquire(d)
    \/ RunPhase(d)
    \/ MarkDone(d)

Next ==
    /\ \E d \in Domains : Worker(d) \/ SpuriousWakeup(d)
    /\ UNCHANGED <<budgetVars, projectVars, constructVars, gridVars,
                   patchVars, handleVars>>

Spec == Init /\ [][Next]_vars

\* every worker is scheduled fairly
FairSpec ==
    Spec /\ \A d \in 0..MaxChildren :
                WF_vars(/\ d \in Domains /\ Worker(d)
                        /\ UNCHANGED <<budgetVars, projectVars,
                                       constructVars, gridVars,
                                       patchVars, handleVars>>)

\* ------------------------------------------ the engine, statement by statement
\* The same workers with phaseCheck and completePhase taken apart into the
\* lock of *mtx, the evaluation of the wait predicate, the two assignments
\* of ControlPoint::increment, and cp.markDone(); the locks inside
\* ControlPoint are constructed with std::defer_lock and never locked, so
\* they order nothing.
LockInit == Init /\ nChild >= 1

\* std::unique_lock<std::mutex>(*mtx) returns once *mtx is free
Lockable_always == TRUE
Lockable == mtxOwner = NoOwner

\* the lock of *mtx at the start of phaseCheck, or inside condition->wait
\* after a wakeup
LockMtx(d) ==
    /\ pc[d] \in {"phaseCheck", "woken"}
    /\ Lockable
    /\ mtxOwner' = d
    /\ pc' = [pc EXCEPT ![d] = "predicate"]
    /\ UNCHANGED <<nChild, ncp, nts, nProcs, remaining, val, done, ts, ph,
                   calls, held>>

\* the predicate of condition->wait is evaluated (getVal, isDone); when it is
\* false the wait unlocks *mtx and blocks
ReadPredicate(d) ==
    /\ pc[d] = "predicate"
    /\ IF Predicate(d)
       THEN pc' = [pc EXCEPT ![d] = "incrementVal"] /\ UNCHANGED mtxOwner
       ELSE pc' = [pc EXCEPT ![d] = "waiting"] /\ mtxOwner' = NoOwner
    /\ UNCHANGED <<nChild, ncp, nts, nProcs, remaining, val, done, ts, ph,
                   calls, held>>

\* val = (val+1)%ncp in ControlPoint::increment
IncrementVal(d) ==
    /\ pc[d] = "incrementVal"
    /\ val' = [val EXCEPT ![d] = increment(@, ncp[d])]
    /\ pc' = [pc EXCEPT ![d] = "incrementDone"]
    /\ UNCHANGED <<nChild, ncp, nts, nProcs, remaining, mtxOwner, done, ts,
                   ph, calls, held>>

\* done = false in ControlPoint::increment, and the notification after it
IncrementDone(d) ==
    /\ pc[d] = "incrementDone"
    /\ done' = [done EXCEPT ![d] = FALSE]
    /\ pc' = IF isParent(d)
             THEN NotifyChildren([pc EXCEPT ![d] = "acquire"])
             ELSE NotifyParent([pc EXCEPT ![d] = "acquire"])
    /\ UNCHANGED <<nChild, ncp, nts, nProcs, remaining, mtxOwner, val, ts,
                   ph, calls, held>>

\* std::unique_lock<std::mutex> lock(*mtx) in completePhase
LockForDone(d) ==
    /\ pc[d] = "markDone"
    /\ Lockable
    /\ mtxOwner' = d
    /\ pc' = [pc EXCEPT ![d] = "markingDone"]
    /\ UNCHANGED <<nChild, ncp, nts, nProcs, remaining, val, done, ts, ph,
                   calls, held>>

\* cp.markDone(), the notification and the unlock at the end of
\* completePhase; then the loops of concurrentTimestepping move on
WriteDone(d) ==
    /\ pc[d] = "markingDone"
    /\ done' = [done EXCEPT ![d] = TRUE]
    /\ mtxOwner' = NoOwner
    /\ ph' = [ph EXCEPT ![d] = NextPh(d)]
    /\ ts' = [ts EXCEPT ![d] = NextTs(d)]
    /\ LET own == [pc EXCEPT ![d] =
                     IF LoopEnds(d) THEN "done" ELSE "phaseCheck"]
       IN  pc' = IF isParent(d) THEN NotifyChildren(own)
                 ELSE NotifyParent(own)
    /\ UNCHANGED <<nChild, ncp, nts, nProcs, remaining, val, held, calls>>

LockWorker(d) ==
    \/ Timestepping(d)
    \/ LockMtx(d)
    \/ ReadPredicate(d)
    \/ IncrementVal(d)
    \/ IncrementDone(d)
    \/ PoolAcquire(d)
    \/ RunPhase(d)
    \/ LockForDone(d)
    \/ WriteDone(d)

LockNext ==
    /\ \E d \in Domains : LockWorker(d) \/ SpuriousWakeup(d)
    /\ UNCHANGED <<budgetVars, projectVars, constructVars, gridVars,
                   patchVars, handleVars>>

LockSpec == LockInit /\ [][LockNext]_vars

\* ------------------------------------------------- the run of a Project
\* Project::run on the domains the constructor built from the domains list:
\* domains[i] is domain i, in the order of the list.  processDomainsList only
\* accepts a parentID that names an earlier row, so table[i] < i.
Listed == 1..Len(table)
NullDomain == 0

HierarchyTables(n) ==
    {t \in [1..n -> 0..n] : \A i \in 1..n : t[i] < i}

ProjectInit ==
    /\ table \in UNION {HierarchyTables(n) : n \in 0..MaxDomains}
    /\ stage = "setDomainHierarchy"
    /\ idx = 1
    /\ parentOf = [i \in Listed |-> NullDomain]
    /\ childDomains = [i \in Listed |-> <<>>]
    /\ hierarchySet = [i \in Listed |-> FALSE]
    /\ configured = {}
    /\ childCPs = [i \in Listed |-> <<>>]
    /\ threadPool = [i \in Listed |-> NullDomain]
    /\ status = [i \in Listed |-> "constructed"]
    /\ phasesOf = [i \in Listed |-> 0]
    /\ ntsOf = [i \in Listed |-> 0]
    /\ projNts = 0
    /\ projNPhases = 0
    /\ thread = [i \in Listed |-> "none"]
    /\ invoked = [i \in Listed |-> FALSE]
    /\ postProcessed = [i \in Listed |-> FALSE]
    /\ EngineOff /\ BudgetOff /\ ConstructOff /\ GridOff
    /\ PatchOff /\ HandleOff

\* Domain::isParent and Domain::isChild of a domain whose hierarchy is set
Domain_isParent(i) == parentOf[i] = NullDomain
Domain_isChild(i) == parentOf[i] # NullDomain

\* childDomains.push_back(newChild_weak) of Domain::addChild
addChild_twice(list, newChild) == Append(Append(list, newChild), newChild)
addChild(list, newChild) == Append(list, newChild)

\* Domain::setParent: the parent handle it leaves, or ReportError when it
\* calls Report::error
ReportError == 0 - 1
setParent_overwrite(i, pd) == pd
setParent(i, pd) == IF parentOf[i] # NullDomain THEN ReportError ELSE pd

\* the statements of Project::run, in the order the main thread reaches them
StageOrder ==
    <<"setDomainHierarchy", "check_multipleParents", "setConcurrency",
      "instantiateMembers", "readInputs", "initialize",
      "processTimesteppingParams", "spawn", "join", "postProcess",
      "finished">>
StageIndex(s) == CHOOSE k \in 1..Len(StageOrder) : StageOrder[k] = s
NextStage_noCheck(s) ==
    IF s = "initialize" THEN "spawn" ELSE StageOrder[StageIndex(s) + 1]
NextStage(s) == StageOrder[StageIndex(s) + 1]

\* the end of one pass of a loop over domains
LoopStep ==
    IF idx < Len(table)
    THEN idx' = idx + 1 /\ stage' = stage
    ELSE idx' = 1 /\ stage' = NextStage(stage)

\* Report::error: the process exits
Fatal == stage' = "exit" /\ idx' = idx

\* Project::run of a project without domains: every loop is empty and
\* processTimesteppingParams reports that there is no domain
RunEmptyProject ==
    /\ stage = "setDomainHierarchy" /\ Len(table) = 0
    /\ Fatal
    /\ UNCHANGED <<table, childCPs, parentOf, childDomains, hierarchySet,
                   configured, threadPool, status, phasesOf, ntsOf, projNts,
                   projNPhases, thread, invoked, postProcessed>>

\* one pass of the loop of Project::setDomainHierarchy: Domain::setHierarchy
\* with Domain::addChild and Domain::setParent
SetHierarchy ==
    /\ stage = "setDomainHierarchy" /\ idx \in Listed
    /\ LET parent == table[idx]
       IN  IF parent # NullDomain
           THEN /\ childDomains' =
                      [childDomains EXCEPT ![parent] = addChild(@, idx)]
                /\ IF setParent(idx, parent) = ReportError
                   THEN Fatal /\ UNCHANGED <<parentOf, hierarchySet>>
                   ELSE /\ parentOf' =
                             [parentOf EXCEPT ![idx] = setParent(idx, parent)]
                        /\ hierarchySet' =
                             [hierarchySet EXCEPT ![idx] = TRUE,
                                                  ![parent] = TRUE]
                        /\ LoopStep
           ELSE /\ hierarchySet' = [hierarchySet EXCEPT ![idx] = TRUE]
                /\ LoopStep
                /\ UNCHANGED <<parentOf, childDomains>>
    /\ UNCHANGED <<table, childCPs, configured, threadPool, status, phasesOf,
                   ntsOf, projNts, projNPhases, thread, invoked,
                   postProcessed>>

\* Project::check_multipleParents, after check_nProc
TooManyParents_never(nParents) == FALSE
TooManyParents(nParents) == nParents > 1
check_multipleParents ==
    /\ stage = "check_multipleParents"
    /\ IF TooManyParents(Cardinality({i \in Listed : Domain_isParent(i)}))
       THEN Fatal
       ELSE stage' = NextStage(stage) /\ idx' = 1
    /\ UNCHANGED <<table, childCPs, parentOf, childDomains, hierarchySet,
                   configured, threadPool, status, phasesOf, ntsOf, projNts,
                   projNPhases, thread, invoked, postProcessed>>

Range(list) == {list[k] : k \in 1..Len(list)}

\* one pass of the loop of Project::setDomainConcurrency: setConcurrency of
\* a parent, which makes the Pool if it has children, and of its children,
\* which copy the parent's pointers
ConfigureConcurrency ==
    /\ stage = "setConcurrency" /\ idx \in Listed
    /\ IF Domain_isParent(idx)
       THEN LET pool == IF Len(childDomains[idx]) = 0 THEN threadPool[idx]
                        ELSE idx
            IN  /\ threadPool' =
                     [i \in Listed |->
                        IF i = idx \/ i \in Range(childDomains[idx])
                        THEN pool ELSE threadPool[i]]
                /\ configured' =
                     configured \cup {idx} \cup Range(childDomains[idx])
                /\ childCPs' =
                     [childCPs EXCEPT ![idx] = @ \o childDomains[idx]]
       ELSE UNCHANGED <<threadPool, configured, childCPs>>
    /\ LoopStep
    /\ UNCHANGED <<table, parentOf, childDomains, hierarchySet, status,
                   phasesOf, ntsOf, projNts, projNPhases, thread, invoked,
                   postProcessed>>

\* domain->instantiateMembers(): the hook may call insertPhase
InstantiateMembers ==
    /\ stage = "instantiateMembers" /\ idx \in Listed
    /\ status' = [status EXCEPT ![idx] = "instantiated"]
    /\ \E k \in 0..MaxInsert : phasesOf' = [phasesOf EXCEPT ![idx] = @ + k]
    /\ LoopStep
    /\ UNCHANGED <<table, childCPs, parentOf, childDomains, hierarchySet,
                   configured, threadPool, ntsOf, projNts, projNPhases,
                   thread, invoked, postProcessed>>

\* domain->readInputs(): fixes what get_nts() returns
ReadInputs ==
    /\ stage = "readInputs" /\ idx \in Listed
    /\ status' = [status EXCEPT ![idx] = "inputsRead"]
    /\ \E n \in 1..MaxNts : ntsOf' = [ntsOf EXCEPT ![idx] = n]
    /\ LoopStep
    /\ UNCHANGED <<table, childCPs, parentOf, childDomains, hierarchySet,
                   configured, threadPool, phasesOf, projNts, projNPhases,
                   thread, invoked, postProcessed>>

\* domain->initialize(): doInitialize may call insertPhase
Initialize ==
    /\ stage = "initialize" /\ idx \in Listed
    /\ status' = [status EXCEPT ![idx] = "initialized"]
    /\ \E k \in 0..MaxInsert : phasesOf' = [phasesOf EXCEPT ![idx] = @ + k]
    /\ LoopStep
    /\ UNCHANGED <<table, childCPs, parentOf, childDomains, hierarchySet,
                   configured, threadPool, ntsOf, projNts, projNPhases,
                   thread, invoked, postProcessed>>

\* the comparisons of Project::processTimesteppingParams
Mismatch_ntsOnly(n, p) == \E i \in Listed : ntsOf[i] # n
Mismatch(n, p) == \E i \in Listed : ntsOf[i] # n \/ phasesOf[i] # p

\* Project::processTimesteppingParams; nPhases is an unsigned short
processTimesteppingParams ==
    /\ stage = "processTimesteppingParams"
    /\ projNts' = ntsOf[1]
    /\ projNPhases' = phasesOf[1] % Half
    /\ IF Mismatch(projNts', projNPhases')
       THEN Fatal
       ELSE stage' = NextStage(stage) /\ idx' = 1
    /\ UNCHANGED <<table, childCPs, parentOf, childDomains, hierarchySet,
                   configured, threadPool, status, phasesOf, ntsOf, thread,
                   invoked, postProcessed>>

\* threads.emplace_back(...) of Project::initiateTimestepping
Spawn ==
    /\ stage = "spawn" /\ idx \in Listed
    /\ thread' = [thread EXCEPT ![idx] = "running"]
    /\ LoopStep
    /\ UNCHANGED <<table, childCPs, parentOf, childDomains, hierarchySet,
                   configured, threadPool, status, phasesOf, ntsOf, projNts,
                   projNPhases, invoked, postProcessed>>

\* the process is running
Alive == stage \notin {"exit", "crashed", "off"}

\* Domain::timestepping takes the sequential routine
Sequential(i) == Domain_isParent(i) /\ Len(childDomains[i]) = 0

\* the worker of domain i calls a phase: in the sequential routine, or
\* after a phaseCheck that used the primitives i points to
InvokePhase(i) ==
    /\ Alive /\ thread[i] = "running" /\ ~invoked[i]
    /\ phasesOf[i] > 0
    /\ Sequential(i) \/ threadPool[i] # NullDomain
    /\ invoked' = [invoked EXCEPT ![i] = TRUE]
    /\ UNCHANGED <<table, childCPs, stage, idx, parentOf, childDomains,
                   hierarchySet, configured, threadPool, status, phasesOf,
                   ntsOf, projNts, projNPhases, thread, postProcessed>>

\* phaseCheck of a domain whose mtx is nullptr dereferences it: the process
\* may be killed
NullPrimitives(i) ==
    /\ Alive /\ thread[i] = "running"
    /\ phasesOf[i] > 0
    /\ ~Sequential(i) /\ threadPool[i] = NullDomain
    /\ stage' = "crashed"
    /\ UNCHANGED <<table, childCPs, idx, parentOf, childDomains, hierarchySet,
                   configured, threadPool, status, phasesOf, ntsOf, projNts,
                   projNPhases, thread, invoked, postProcessed>>

\* domain->timestepping(nts) returns
Returns(i) ==
    /\ Alive /\ thread[i] = "running"
    /\ invoked[i] \/ phasesOf[i] = 0
    /\ thread' = [thread EXCEPT ![i] = "returned"]
    /\ UNCHANGED <<table, childCPs, stage, idx, parentOf, childDomains,
                   hierarchySet, configured, threadPool, status, phasesOf,
                   ntsOf, projNts, projNPhases, invoked, postProcessed>>

\* thread.join() of Project::initiateTimestepping
Joinable_always(i) == TRUE
Joinable(i) == thread[i] = "returned"
Join ==
    /\ stage = "join" /\ idx \in Listed
    /\ Joinable(idx)
    /\ thread' = [thread EXCEPT ![idx] =
                    IF @ = "returned" THEN "joined" ELSE @]
    /\ LoopStep
    /\ UNCHANGED <<table, childCPs, parentOf, childDomains, hierarchySet,
                   configured, threadPool, status, phasesOf, ntsOf, projNts,
                   projNPhases, invoked, postProcessed>>

\* domain->postProcess() of Project::finalizeRun
PostProcess ==
    /\ stage = "postProcess" /\ idx \in Listed
    /\ postProcessed' = [postProcessed EXCEPT ![idx] = TRUE]
    /\ LoopStep
    /\ UNCHANGED <<table, childCPs, parentOf, childDomains, hierarchySet,
                   configured, threadPool, status, phasesOf, ntsOf, projNts,
                   projNPhases, thread, invoked>>

MainThread ==
    \/ RunEmptyProject
    \/ SetHierarchy
    \/ check_multipleParents
    \/ ConfigureConcurrency
    \/ InstantiateMembers
    \/ ReadInputs
    \/ Initialize
    \/ processTimesteppingParams
    \/ Spawn
    \/ Join
    \/ PostProcess

ProjectNext ==
    /\ \/ MainThread
       \/ \E i \in Listed : InvokePhase(i) \/ NullPrimitives(i) \/ Returns(i)
    /\ UNCHANGED <<engineVars, budgetVars, constructVars, gridVars,
                   patchVars, handleVars>>

ProjectSpec == ProjectInit /\ [][ProjectNext]_vars

\* ------------------------------------------ the constructor of a Project
\* Project::processDomainsList on the rows of a project input, whatever the
\* rows are.  A domainID and an outputDir are numbers from 1, the parentID
\* of a row without a fourth column is NoID (the empty string).
NoID == 0
Rows ==
    [domainID : 1..MaxDomains, outputDir : 1..MaxDirs,
     parentID : 0..MaxDomains]

ConstructInit ==
    /\ domains = <<>>
    /\ hierarchyTable = {}
    /\ row = [domainID |-> NoID, outputDir |-> NoID, parentID |-> NoID]
    /\ cstage = "processDomainsList"
    /\ EngineOff /\ BudgetOff /\ ProjectOff /\ GridOff
    /\ PatchOff /\ HandleOff

\* Project::getDomain(domainID) finds a domain
getDomain(domainID) == \E k \in 1..Len(domains) : domains[k].id = domainID

domainID_isAvailable(newDomainID) ==
    \A k \in 1..Len(domains) : domains[k].id # newDomainID

outputDir_isAvailable_always(newOutputDir) == TRUE
outputDir_isAvailable(newOutputDir) ==
    \A k \in 1..Len(domains) : domains[k].outputDir # newOutputDir

\* Project::addDomain of the domain made from row r: the list it leaves
\* and whether it called Report::error
addDomain(r) ==
    IF ~domainID_isAvailable(r.domainID) THEN <<domains, TRUE>>
    ELSE IF ~outputDir_isAvailable(r.outputDir) THEN <<domains, TRUE>>
    ELSE <<Append(domains, [id |-> r.domainID, outputDir |-> r.outputDir]),
           FALSE>>

\* hierarchyTable[row.domainID] = row.parentID
SetEntry(r) ==
    {e \in hierarchyTable : e[1] # r.domainID}
        \cup {<<r.domainID, r.parentID>>}

\* one pass of the loop of processDomainsList
ProcessRow(r) ==
    /\ cstage = "processDomainsList" /\ Len(domains) < MaxDomains
    /\ row' = r
    /\ IF r.parentID # NoID /\ ~getDomain(r.parentID)
       THEN cstage' = "exit" /\ UNCHANGED <<domains, hierarchyTable>>
       ELSE /\ hierarchyTable' =
                 (IF r.parentID # NoID THEN SetEntry(r) ELSE hierarchyTable)
            /\ domains' = addDomain(r)[1]
            /\ cstage' = (IF addDomain(r)[2] THEN "exit" ELSE cstage)

\* the end of the domains list: the constructor returns
Constructed ==
    /\ cstage = "processDomainsList"
    /\ cstage' = "constructed"
    /\ UNCHANGED <<domains, hierarchyTable, row>>

ConstructNext ==
    /\ (\E r \in Rows : ProcessRow(r)) \/ Constructed
    /\ UNCHANGED <<engineVars, budgetVars, projectVars, gridVars,
                   patchVars, handleVars>>

ConstructSpec == ConstructInit /\ [][ConstructNext]_vars

\* ------------------------------------------------- the units of a Grid
\* The units of one type of a Grid and its patches.  The units 1..MaxUnits
\* are made by the client and each is identified by its id; a child grid
\* also stores copies of the units of its parent grid.  A position is an
\* unsigned int; it is held as the integer congruent to it modulo 2^32 that
\* is nearest to zero, so that pos-- of a position 0 gives -1, which stands
\* for 2^32 - 1.
Units == 1..MaxUnits
Stored == {units[k] : k \in 1..Len(units)}

\* the positions of the units of the parent grid
ParentPositions == 0..(MaxParentUnits - 1)
\* the k-th object std::make_shared<unitType>(*parentUnit) makes of the
\* parent unit at position pp
Copy(pp, k) == MaxUnits + pp * MaxCopies + k
Copies == {Copy(pp, k) : pp \in ParentPositions, k \in 1..MaxCopies}
isCopy(u) == u > MaxUnits
\* parentUnit->getPos() of the unit u was copied from
parentPos(u) == (u - MaxUnits - 1) \div MaxCopies
\* Unit::getID: a copy has the id of the parent unit; the parent unit at
\* position pp has the id MaxUnits + 1 + pp
getID(u) == IF isCopy(u) THEN MaxUnits + 1 + parentPos(u) ELSE u

\* Grid::isChild
isChild == gridParent

\* unsigned id = UINT_MAX of a Patch no id was assigned to
NoPatchID == 0 - 1
\* Patch::Patch
Patch == [id |-> NoPatchID, upToDate |-> FALSE, locked |-> FALSE]

GridInit ==
    /\ units = <<>>
    /\ unitPos = [u \in Units \cup Copies |-> 0]
    /\ upos = <<>>
    /\ vpos = <<>>
    /\ id2pos = [u \in {} |-> 0]
    /\ gstage = "grid"
    /\ nOps = 0
    /\ gridParent \in BOOLEAN
    /\ patches = <<>>
    /\ vpids = <<>>
    /\ cp2pp = [p \in {} |-> 0]
    /\ pp2cp = [p \in {} |-> 0]
    /\ EngineOff /\ BudgetOff /\ ProjectOff /\ ConstructOff
    /\ PatchOff /\ HandleOff

\* Patch::invalidate
invalidate_unlocked(patch) == [patch EXCEPT !.upToDate = FALSE]
invalidate(patch) == [patch EXCEPT !.upToDate = FALSE, !.locked = TRUE]

\* Patch::validate
validate(patch) == [patch EXCEPT !.upToDate = TRUE]

\* for (auto &patch : patches) if (patch.isUpToDate()) patch.invalidate()
InformPatches ==
    [k \in 1..Len(patches) |->
        IF patches[k].upToDate THEN invalidate(patches[k]) ELSE patches[k]]

\* map[key] = value on a std::unordered_map
MapPut(map, key, value) ==
    [k \in DOMAIN map \cup {key} |-> IF k = key THEN value ELSE map[k]]

\* Grid::setUnitPosition: the position given to a new unit
setUnitPosition == IF Len(vpos) > 0 THEN Head(vpos) ELSE Len(units)

\* Grid::insertUnit
insertUnit(unit) ==
    /\ gstage = "grid" /\ nOps < MaxGridOps
    /\ unit \notin Stored
    /\ unitPos' = [unitPos EXCEPT ![unit] = setUnitPosition]
    /\ vpos' = (IF Len(vpos) > 0 THEN Tail(vpos) ELSE vpos)
    /\ units' = Append(units, unit)
    /\ upos' = Append(upos, setUnitPosition)
    /\ id2pos' = MapPut(id2pos, getID(unit), setUnitPosition)
    /\ patches' = InformPatches
    /\ nOps' = nOps + 1
    /\ UNCHANGED <<gstage, gridParent, vpids>>

\* the object copyFromParent makes of the parent unit at position pp: the
\* first that is not stored in the grid
NewCopy(pp) ==
    Copy(pp, CHOOSE k \in 1..MaxCopies :
                 /\ Copy(pp, k) \notin Stored
                 /\ \A j \in 1..(k - 1) : Copy(pp, j) \in Stored)

\* Grid::copyFromParent of the parent unit at position parentPosition
copyFromParent(parentPosition) ==
    IF ~isChild
    THEN /\ gstage = "grid" /\ nOps < MaxGridOps
         /\ gstage' = "exit"
         /\ nOps' = nOps + 1
         /\ UNCHANGED <<units, unitPos, upos, vpos, id2pos, gridParent,
                        patches, vpids, cp2pp, pp2cp>>
    ELSE /\ \E k \in 1..MaxCopies : Copy(parentPosition, k) \notin Stored
         /\ insertUnit(NewCopy(parentPosition))
         /\ cp2pp' = MapPut(cp2pp, setUnitPosition, parentPosition)
         /\ pp2cp' = MapPut(pp2cp, parentPosition, setUnitPosition)

\* std::distance(units.begin(), std::find(units.begin(), units.end(), unit))
IndexOf(unit) == (CHOOSE k \in 1..Len(units) : units[k] = unit) - 1

\* Grid::confirmUnitPosition
confirmUnitPosition(unit) == IndexOf(unit) = unitPos[unit]

\* list without every element equal to pos: std::list::remove
ListRemove(list, pos) == SelectSeq(list, LAMBDA p : p # pos)

\* what Grid::removeUnit leaves in the members of the grid when the position
\* of the unit is confirmed
removeUnit_members(unit) ==
    LET pos == unitPos[unit]
        rest == SelectSeq(units, LAMBDA u : u # unit)
        following == (pos + 1)..Len(rest)
        shifted == {rest[k] : k \in following}
    IN  [upos |-> ListRemove(upos, pos),
         vpos |-> Append(vpos, pos),
         units |-> rest,
         unitPos |-> [u \in DOMAIN unitPos |->
                        IF u \in shifted THEN unitPos[u] - 1
                        ELSE unitPos[u]],
         id2pos |-> [id \in DOMAIN id2pos |->
                       id2pos[id] -
                       Cardinality({k \in following : getID(rest[k]) = id})]]

\* Grid::removeUnit
removeUnit(unit) ==
    /\ gstage = "grid" /\ nOps < MaxGridOps
    /\ unit \in Stored
    /\ nOps' = nOps + 1
    /\ IF ~confirmUnitPosition(unit)
       THEN /\ gstage' = "exit"
            /\ UNCHANGED <<units, unitPos, upos, vpos, id2pos, patches>>
       ELSE /\ upos' = removeUnit_members(unit).upos
            /\ vpos' = removeUnit_members(unit).vpos
            /\ units' = removeUnit_members(unit).units
            /\ unitPos' = removeUnit_members(unit).unitPos
            /\ id2pos' = removeUnit_members(unit).id2pos
            /\ patches' = InformPatches
            /\ UNCHANGED gstage
    /\ UNCHANGED <<gridParent, vpids, cp2pp, pp2cp>>

\* Grid::setPatchID: the id given to the patch emplace_back has added
setPatchID == IF Len(vpids) > 0 THEN Head(vpids) ELSE Len(patches)

\* Grid::addPatch
addPatch ==
    /\ gstage = "grid" /\ nOps < MaxGridOps
    /\ Len(patches) < MaxPatches
    /\ patches' = Append(patches, [Patch EXCEPT !.id = setPatchID])
    /\ vpids' = (IF Len(vpids) > 0 THEN Tail(vpids) ELSE vpids)
    /\ nOps' = nOps + 1
    /\ UNCHANGED <<units, unitPos, upos, vpos, id2pos, gstage, gridParent,
                   cp2pp, pp2cp>>

\* list without its i-th element: erase(begin() + (i - 1))
Erase(list, i) == SubSeq(list, 1, i - 1) \o SubSeq(list, i + 1, Len(list))

\* the index pi + 1 of the first patch of the grid with the id given
FirstWithID(id) ==
    CHOOSE i \in 1..Len(patches) :
        /\ patches[i].id = id
        /\ \A j \in 1..(i - 1) : patches[j].id # id

\* Grid::removePatch of the k-th patch of the grid
removePatch(k) ==
    /\ gstage = "grid" /\ nOps < MaxGridOps
    /\ k \in 1..Len(patches)
    /\ patches' = Erase(patches, FirstWithID(patches[k].id))
    /\ nOps' = nOps + 1
    /\ UNCHANGED <<units, unitPos, upos, vpos, id2pos, gstage, gridParent,
                   vpids, cp2pp, pp2cp>>

\* a patch of the grid has rebuilt its pointers and calls validate()
Validate(k) ==
    /\ gstage = "grid"
    /\ k \in 1..Len(patches) /\ ~patches[k].upToDate
    /\ patches' = [patches EXCEPT ![k] = validate(patches[k])]
    /\ UNCHANGED <<units, unitPos, upos, vpos, id2pos, gstage, nOps,
                   gridParent, vpids, cp2pp, pp2cp>>

\* insertUnit of a unit the client made
InsertUnit(unit) == insertUnit(unit) /\ UNCHANGED <<cp2pp, pp2cp>>

GridNext ==
    /\ \/ \E unit \in Units : InsertUnit(unit)
       \/ \E unit \in Units \cup Copies : removeUnit(unit)
       \/ \E parentPosition \in ParentPositions : copyFromParent(parentPosition)
       \/ addPatch
       \/ \E k \in 1..MaxPatches : removePatch(k) \/ Validate(k)
    /\ UNCHANGED <<engineVars, budgetVars, projectVars, constructVars,
                   patchVars, handleVars>>

GridSpec == GridInit /\ [][GridNext]_vars

\* ------------------------------------------- the units of a Patch, Unit
\* One Patch and the units 1..MaxPatchUnits it is given pointers to; the patch
\* has the id the grid assigned to it.  patchPos is an unsigned int held as
\* a position of the grid is.  Unit::patchPos and Unit::activationTimestep
\* have no initializer: a unit starts with any value in them.
Uninitialized == 0..1
PatchUnits == 1..MaxPatchUnits
\* the timestep ts given to Unit::activate
Timesteps == 0..MaxNts

\* Unit::Unit(id_) and the default member initializers
Unit(id_) ==
    [id : {id_}, active : {FALSE}, initiallyActive : {FALSE},
     patchPos : Uninitialized, activationTimestep : Uninitialized,
     patchID : {NoPatchID}]

NewUnits == {f \in [PatchUnits -> UNION {Unit(u) : u \in PatchUnits}] :
                \A u \in PatchUnits : f[u].id = u}

PatchInit ==
    /\ unitData \in NewUnits
    /\ unitptrs = <<>>
    /\ patchId \in 0..(MaxPatches - 1)
    /\ ustage = "patch"
    /\ EngineOff /\ BudgetOff /\ ProjectOff /\ ConstructOff /\ GridOff
    /\ HandleOff

\* Unit::activate, Unit::deactivate: the unit they leave when they return
activate(u, step) ==
    [u EXCEPT !.active = TRUE, !.activationTimestep = step,
              !.initiallyActive = IF step = 0 THEN TRUE ELSE @]
deactivate(u) == [u EXCEPT !.active = FALSE]

\* if (active) Report::error in Unit::activate
AlreadyActive_never(u) == FALSE
AlreadyActive(u) == u.active
\* if (not active) Report::error in Unit::deactivate
AlreadyDeactivated(u) == ~u.active

\* Patch::insertUnitPtr
insertUnitPtr(unitptr, step) ==
    /\ ustage = "patch"
    /\ LET placed == [unitData[unitptr] EXCEPT !.patchPos = Len(unitptrs)]
       IN  IF AlreadyActive(placed)
           THEN /\ ustage' = "exit"
                /\ unitData' = [unitData EXCEPT ![unitptr] = placed]
                /\ UNCHANGED unitptrs
           ELSE /\ unitData' =
                     [unitData EXCEPT ![unitptr] =
                         [activate(placed, step) EXCEPT !.patchID = patchId]]
                /\ unitptrs' = Append(unitptrs, unitptr)
                /\ UNCHANGED ustage
    /\ UNCHANGED patchId

\* the indices i of the loop "for i = patchPos; i < newSize" of removeUnitPtr
Following_none(patchPos, newSize) == {}
Following(patchPos, newSize) == patchPos..(newSize - 1)

\* Patch::removeUnitPtr
removeUnitPtr(unitptr) ==
    /\ ustage = "patch"
    /\ IF AlreadyDeactivated(unitData[unitptr])
       THEN /\ ustage' = "exit"
            /\ UNCHANGED <<unitData, unitptrs>>
       ELSE LET rest == SelectSeq(unitptrs, LAMBDA p : p # unitptr)
                shifted ==
                    {rest[i + 1] :
                        i \in Following(unitData[unitptr].patchPos,
                                        Len(rest))}
            IN  /\ unitptrs' = rest
                /\ unitData' =
                     [u \in PatchUnits |->
                        IF u = unitptr THEN deactivate(unitData[u])
                        ELSE IF u \in shifted
                        THEN [unitData[u] EXCEPT !.patchPos = @ - 1]
                        ELSE unitData[u]]
                /\ UNCHANGED ustage
    /\ UNCHANGED patchId

PatchNext ==
    /\ \E unitptr \in PatchUnits :
          \/ \E step \in Timesteps : insertUnitPtr(unitptr, step)
          \/ removeUnitPtr(unitptr)
    /\ UNCHANGED <<engineVars, budgetVars, projectVars, constructVars,
                   gridVars, handleVars>>

PatchSpec == PatchInit /\ [][PatchNext]_vars

\* the units by themselves: activate and deactivate called on them
UnitInit ==
    /\ unitData \in NewUnits
    /\ unitptrs = <<>>
    /\ patchId = 0
    /\ ustage = "unit"
    /\ EngineOff /\ BudgetOff /\ ProjectOff /\ ConstructOff /\ GridOff
    /\ HandleOff

\* unit.activate(ts)
Activate(u, step) ==
    /\ ustage = "unit"
    /\ IF AlreadyActive(unitData[u])
       THEN ustage' = "exit" /\ UNCHANGED unitData
       ELSE /\ unitData' = [unitData EXCEPT ![u] = activate(@, step)]
            /\ UNCHANGED ustage
    /\ UNCHANGED <<unitptrs, patchId>>

\* unit.deactivate()
Deactivate(u) ==
    /\ ustage = "unit"
    /\ IF AlreadyDeactivated(unitData[u])
       THEN ustage' = "exit" /\ UNCHANGED unitData
       ELSE /\ unitData' = [unitData EXCEPT ![u] = deactivate(@)]
            /\ UNCHANGED ustage
    /\ UNCHANGED <<unitptrs, patchId>>

UnitNext ==
    /\ \E u \in PatchUnits :
          \/ \E step \in Timesteps : Activate(u, step)
          \/ Deactivate(u)
    /\ UNCHANGED <<engineVars, budgetVars, projectVars, constructVars,
                   gridVars, handleVars>>

UnitSpec == UnitInit /\ [][UnitNext]_vars

\* --------------------------------------------------- unit handles (uref.h)
\* The cref objects the grid keeps, one for each of the units
\* 1..MaxHandleUnits and one more to move a cref into, and the mref objects
\* 1..MaxMrefs of the clients.  A handle is a record of its members; unit is
\* the unit the handle was made for, live says that the object exists.  An
\* address is a number, nullptr is 0; unit u is at the address u at first and
\* moves to a higher address with each relocation.
HandleUnits == 1..MaxHandleUnits
Crefs == 1..(MaxHandleUnits + 1)
Mrefs == 1..MaxMrefs
NullPtr == 0
NoUnit == 0

\* cref::cref(UnitType& unit): root keeps its initializer nullptr
NewCref(unit) ==
    [live |-> TRUE, unit |-> unit, unitPtr |-> unit, root |-> NullPtr,
     duplicates |-> <<>>]
\* the storage of a cref or mref that was never constructed
NoCref ==
    [live |-> FALSE, unit |-> NoUnit, unitPtr |-> NullPtr, root |-> NullPtr,
     duplicates |-> <<>>]
NoMref ==
    [live |-> FALSE, unit |-> NoUnit, unitPtr |-> NullPtr, root |-> NullPtr]

HandleInit ==
    /\ crefs = [c \in Crefs |-> IF c \in HandleUnits THEN NewCref(c)
                                ELSE NoCref]
    /\ mrefs = [m \in Mrefs |-> NoMref]
    /\ hstage = "handles"
    /\ nHandleOps = 0
    /\ EngineOff /\ BudgetOff /\ ProjectOff /\ ConstructOff /\ GridOff
    /\ PatchOff

LiveCrefs == {c \in Crefs : crefs[c].live}
LiveMrefs == {m \in Mrefs : mrefs[m].live}
\* the storage a new object is constructed in: the first that is free
NewMref == CHOOSE m \in Mrefs \ LiveMrefs : \A k \in Mrefs \ LiveMrefs : m <= k
NewCrefSlot ==
    CHOOSE c \in Crefs \ LiveCrefs : \A k \in Crefs \ LiveCrefs : c <= k

\* a call is made on the handles
Call ==
    /\ hstage = "handles" /\ nHandleOps < MaxHandleOps
    /\ nHandleOps' = nHandleOps + 1

\* cref::addDuplicate, cref::removeDuplicate on the cref object root
addDuplicate(cs, root, d) ==
    [cs EXCEPT ![root].duplicates = Append(@, d)]
removeDuplicate(cs, root, d) ==
    [cs EXCEPT ![root].duplicates = SelectSeq(@, LAMBDA x : x # d)]

\* root points to a cref object that exists
Dereferenceable(root) == root # NullPtr /\ crefs[root].live

\* mref::reset: the crefs and the mref it leaves
reset(cs, d) ==
    IF mrefs[d].root # NullPtr THEN removeDuplicate(cs, mrefs[d].root, d)
    ELSE cs
Reset == [NoMref EXCEPT !.live = TRUE]

\* mref::mref(const cref<UnitType>& original)
CopyFromCref(original) ==
    /\ Call /\ original \in LiveCrefs /\ Mrefs # LiveMrefs
    /\ mrefs' = [mrefs EXCEPT ![NewMref] =
                    [live |-> TRUE, unit |-> crefs[original].unit,
                     unitPtr |-> crefs[original].unitPtr,
                     root |-> crefs[original].root]]
    /\ crefs' = addDuplicate(crefs, original, NewMref)
    /\ UNCHANGED hstage

\* root->addDuplicate(*this) on the mref d whose root was just set: with a
\* root that is nullptr or points to a cref that no longer exists the call
\* is undefined; it ends the program or returns without a registration.
Register(cs, ms, d) ==
    IF Dereferenceable(ms[d].root)
    THEN /\ crefs' = addDuplicate(cs, ms[d].root, d)
         /\ mrefs' = ms
         /\ UNCHANGED hstage
    ELSE \/ /\ hstage' = "crashed"
            /\ UNCHANGED <<crefs, mrefs>>
         \/ /\ crefs' = cs
            /\ mrefs' = ms
            /\ UNCHANGED hstage

\* mref::mref(const mref &original)
CopyFromMref(original) ==
    /\ Call /\ original \in LiveMrefs /\ Mrefs # LiveMrefs
    /\ Register(crefs,
                [mrefs EXCEPT ![NewMref] =
                    [live |-> TRUE, unit |-> mrefs[original].unit,
                     unitPtr |-> mrefs[original].unitPtr,
                     root |-> mrefs[original].root]],
                NewMref)

\* mref::mref(mref&& original)
MoveConstructMref(original) ==
    /\ Call /\ original \in LiveMrefs /\ Mrefs # LiveMrefs
    /\ Register(reset(crefs, original),
                [mrefs EXCEPT ![NewMref] =
                    [live |-> TRUE, unit |-> mrefs[original].unit,
                     unitPtr |-> mrefs[original].unitPtr,
                     root |-> mrefs[original].root],
                              ![original] = Reset],
                NewMref)

\* mref::operator=(mref&& original) on the mref this
MoveAssignMref(this, original) ==
    /\ Call /\ this \in LiveMrefs /\ original \in LiveMrefs
    /\ this # original
    /\ Register(reset(crefs, original),
                [mrefs EXCEPT ![this] =
                    [live |-> TRUE, unit |-> mrefs[original].unit,
                     unitPtr |-> mrefs[original].unitPtr,
                     root |-> mrefs[original].root],
                              ![original] = Reset],
                this)

\* mref::~mref
DestroyMref(d) ==
    /\ Call /\ d \in LiveMrefs
    /\ IF mrefs[d].root = NullPtr \/ crefs[mrefs[d].root].live
       THEN /\ crefs' = reset(crefs, d)
            /\ mrefs' = [mrefs EXCEPT ![d] = NoMref]
            /\ UNCHANGED hstage
       ELSE \* removeDuplicate on a cref that no longer exists: undefined
            \/ /\ hstage' = "crashed"
               /\ UNCHANGED <<crefs, mrefs>>
            \/ /\ mrefs' = [mrefs EXCEPT ![d] = NoMref]
               /\ UNCHANGED <<crefs, hstage>>

\* the duplicates a cref takes over: duplicate->root = root for each
Rooted(ms, list, root) ==
    [m \in Mrefs |->
        IF \E i \in 1..Len(list) : list[i] = m
        THEN [ms[m] EXCEPT !.root = root] ELSE ms[m]]

\* every pointer of the list points to an mref that exists
AllLive(list) == \A i \in 1..Len(list) : mrefs[list[i]].live

\* what the move constructor and the move assignment of cref do to the cref
\* object this: the members of the original are copied, root = this, and
\* duplicate->root = root for each duplicate.  The original is destroyed
\* after the move.  With a duplicate in the list that was destroyed the
\* assignment to its root is undefined: it ends the program or has no effect.
MoveCref(this, original) ==
    LET moved == [crefs EXCEPT
                     ![this] = [crefs[original] EXCEPT !.root = this],
                     ![original].live = FALSE]
    IN  IF AllLive(crefs[original].duplicates)
        THEN /\ crefs' = moved
             /\ mrefs' = Rooted(mrefs, crefs[original].duplicates, this)
             /\ UNCHANGED hstage
        ELSE \/ /\ hstage' = "crashed"
                /\ UNCHANGED <<crefs, mrefs>>
             \/ /\ crefs' = moved
                /\ mrefs' = Rooted(mrefs,
                                   SelectSeq(crefs[original].duplicates,
                                             LAMBDA m : mrefs[m].live),
                                   this)
                /\ UNCHANGED hstage

\* cref::cref(cref&& original): the vector of crefs is reallocated
MoveConstructCref(original) ==
    /\ Call /\ original \in LiveCrefs /\ Crefs # LiveCrefs
    /\ MoveCref(NewCrefSlot, original)

\* cref::operator=(cref&& original) on the cref this: the unit of this was
\* removed from the grid and the crefs behind it move down
MoveAssignCref(this, original) ==
    /\ Call /\ this \in LiveCrefs /\ original \in LiveCrefs
    /\ this # original
    /\ MoveCref(this, original)

\* the address a unit is relocated to
Relocated(address) == address + MaxHandleUnits

\* mref::revalidate on each duplicate of the list
Revalidated(ms, list, address) ==
    [m \in Mrefs |->
        IF \E i \in 1..Len(list) : list[i] = m
        THEN [ms[m] EXCEPT !.unitPtr = address] ELSE ms[m]]

\* cref::revalidate(unit_moved) of the cref c, called by the grid after the
\* unit of c was relocated
revalidate(c) ==
    /\ Call /\ c \in LiveCrefs
    /\ IF AllLive(crefs[c].duplicates)
       THEN /\ crefs' = [crefs EXCEPT ![c].unitPtr = Relocated(@)]
            /\ mrefs' = Revalidated(mrefs, crefs[c].duplicates,
                                    Relocated(crefs[c].unitPtr))
            /\ UNCHANGED hstage
       ELSE \* duplicate->revalidate on an mref that was destroyed
            \/ /\ hstage' = "crashed"
               /\ UNCHANGED <<crefs, mrefs>>
            \/ /\ crefs' = [crefs EXCEPT ![c].unitPtr = Relocated(@)]
               /\ mrefs' = Revalidated(mrefs,
                                       SelectSeq(crefs[c].duplicates,
                                                 LAMBDA m : mrefs[m].live),
                                       Relocated(crefs[c].unitPtr))
               /\ UNCHANGED hstage

HandleNext ==
    /\ \/ \E c \in Crefs :
             \/ CopyFromCref(c) \/ MoveConstructCref(c) \/ revalidate(c)
             \/ \E this \in Crefs : MoveAssignCref(this, c)
       \/ \E m \in Mrefs :
             \/ CopyFromMref(m) \/ MoveConstructMref(m) \/ DestroyMref(m)
             \/ \E this \in Mrefs : MoveAssignMref(this, m)
    /\ UNCHANGED <<engineVars, budgetVars, projectVars, constructVars,
                   gridVars, patchVars>>

HandleSpec == HandleInit /\ [][HandleNext]_vars

\* ------------------------------------------------------------- progress
\* number of passes of the inner loop d has finished
Completed(d) == (ts[d] - 1) * ncp[d] + ph[d]
\* number of phaseCheck barriers d has passed
Started(d) ==
    Completed(d) +
    (IF pc[d] \in {"acquire", "poolWait", "phase", "markDone"}
     THEN 1 ELSE 0)
AllDone == \A d \in Domains : pc[d] = "done"

TypeOK ==
    /\ nChild \in 0..MaxChildren
    /\ remaining \in Int
    /\ mtxOwner \in Domains \cup {NoOwner}
    /\ \A d \in Domains :
          /\ pc[d] \in {"start", "sequential", "phaseCheck", "waiting",
                        "woken", "acquire", "poolWait", "phase", "markDone",
                        "done"}
          /\ ts[d] \in 1..(nts + 1)
          /\ ph[d] \in 0..(ncp[d] - 1)
          /\ done[d] \in BOOLEAN

Executing(d) == pc[d] = "phase"
Passes(d) == pc[d] \in {"phaseCheck", "woken"} /\ pc'[d] = "acquire"
Concurrent == nChild >= 1

\* ------------------------------------------------------------------ claims

\* C1: every domain invokes its phase callables in registration order, the
\* phases of timestep t before those of t+1, none twice; a worker that has
\* left its timestepping loop has invoked every phase of every timestep
\* 1..nts exactly once.
C1_PhasesOnceInOrder ==
    \A d \in Domains :
        /\ Len(calls[d]) <= nts * ncp[d]
        /\ \A i \in 1..Len(calls[d]) :
              calls[d][i] = <<(i - 1) % ncp[d], ((i - 1) \div ncp[d]) + 1>>
        /\ pc[d] = "done" => Len(calls[d]) = nts * ncp[d]

C1_Witness ==
    /\ nChild = 2 /\ nts = 2 /\ ncp[Parent] = 3
    /\ AllDone
    /\ \A d \in Domains : Len(calls[d]) = 6

\* C2: with at least one child, at least two phases and a pool of at least
\* one permit, under fair
\* scheduling of the workers every worker finishes its timestepping loop,
\* whatever the pool size; so no state is reached in which the unfinished
\* workers are all blocked for good.
C2_EveryWorkerFinishes ==
    (Concurrent /\ ncp[Parent] >= 2 /\ nProcs >= 1) ~> AllDone

C2_Witness ==
    /\ nChild = 2 /\ ncp[Parent] >= 2 /\ nProcs = 1
    /\ AllDone

\* C3: whenever no worker holds the shared mutex, the parent is zero or one
\* phase ahead of every child.
C3_GapZeroOrOne ==
    (Concurrent /\ mtxOwner = NoOwner) =>
        \A c \in Children :
            Gap(ncp[Parent], val[Parent], val[c]) \in {0, 1}

C3_Witness ==
    /\ ncp[Parent] = 3 /\ nChild = 2 /\ mtxOwner = NoOwner
    /\ Gap(ncp[Parent], val[Parent], val[1]) = 1
    /\ Gap(ncp[Parent], val[Parent], val[2]) = 0
    /\ ts[Parent] = 2

\* C4: a child passes its barrier only when the parent is exactly one phase
\* ahead and done; so a child that has passed the barrier for a phase of a
\* timestep finds that the parent has invoked and completed that phase.
C4_ChildPassStep ==
    \A c \in Children :
        Passes(c) =>
            /\ Gap(ncp[c], val[Parent], val[c]) = 1
            /\ done[Parent]

C4_ChildBehindParent ==
    \A c \in Children :
        /\ Started(c) <= Completed(Parent)
        /\ pc[c] \in {"acquire", "poolWait", "phase"} =>
              \E i \in 1..Len(calls[Parent]) :
                  calls[Parent][i] = <<ph[c], ts[c]>>

C4_ChildAfterParent ==
    [][C4_ChildPassStep]_vars /\ []C4_ChildBehindParent

C4_Witness ==
    /\ nChild >= 1 /\ ncp[Parent] = 3
    /\ pc[1] = "phase" /\ ts[1] = 2 /\ ph[1] = 0
    /\ Completed(Parent) = Started(1)

\* C5: the parent passes its barrier only when every child is level with
\* it; one lagging child among several keeps it from passing.
C5_ParentPassStep ==
    Passes(Parent) =>
        \A c \in Children : Gap(ncp[Parent], val[Parent], val[c]) = 0

C5_ParentWaitsForAll == [][C5_ParentPassStep]_vars

C5_Witness ==
    /\ nChild = 2 /\ ncp[Parent] = 3
    /\ pc[Parent] = "waiting"
    /\ Gap(ncp[Parent], val[Parent], val[1]) = 0
    /\ Gap(ncp[Parent], val[Parent], val[2]) = 1

\* C6: the domains executing a phase callable are as many as the permits
\* taken from the pool, never more than the pool size; a domain holds one
\* permit exactly while it executes, never two.
C6_PermitsBounded ==
    Concurrent =>
        /\ Cardinality({d \in Domains : Executing(d)}) = nProcs - remaining
        /\ Cardinality({d \in Domains : Executing(d)}) <= nProcs
        /\ \A d \in Domains :
              held[d] = (IF Executing(d) THEN 1 ELSE 0)

C6_Witness ==
    /\ nChild = 2 /\ nProcs = 2 /\ remaining = 0
    /\ Cardinality({d \in Domains : Executing(d)}) = 2
    /\ \E d \in Domains : pc[d] = "poolWait"

\* C7: the pool's count of free permits stays within 0..nProcs.
C7_PoolRange == Concurrent => (0 <= remaining /\ remaining <= nProcs)

C7_Witness ==
    /\ nProcs = 1 /\ remaining = 0
    /\ \E d \in Domains : pc[d] = "poolWait"
    /\ \E d \in Domains : pc[d] = "phase" /\ held[d] = 1

\* every ControlPoint still has its initial value and done = true
InitialControlPoints ==
    \A d \in Domains : val[d] = InitialVal /\ done[d]

\* C8 as stated: from the initial ControlPoints the barrier predicate of
\* the first phaseCheck holds for the parent and for each child, so no
\* domain waits on the barrier before its first phase.
C8_NoFirstWait ==
    (Concurrent /\ InitialControlPoints) =>
        \A d \in Domains :
            pc[d] \in {"phaseCheck", "waiting"} =>
                Predicate(d) /\ pc[d] # "waiting"

\* C8, amended: from the initial ControlPoints the predicate holds for the
\* parent alone, which never waits before its first phase; the predicate of
\* every child is false there, and a child passes its first barrier only
\* after the parent has completed its first phase.
C8_FirstBarrier ==
    Concurrent =>
        /\ InitialControlPoints =>
              ParentPredicate /\ \A c \in Children : ~ChildPredicate(c)
        /\ Started(Parent) = 0 => pc[Parent] \notin {"waiting", "woken"}
        /\ \A c \in Children : Started(c) >= 1 => Completed(Parent) >= 1

C8_Witness ==
    /\ nChild = 2 /\ ncp[Parent] = 3
    /\ pc[Parent] = "phase" /\ Started(Parent) = 1
    /\ \A c \in Children : pc[c] = "waiting" /\ Started(c) = 0

\* the configuration of C9: one child, two phases, two timesteps, pool of 2
C9_Scenario ==
    /\ nChild = 1 /\ nts = 2 /\ nProcs = ToNat(nProc_interDomain(U32(4), U32(1)))
    /\ \A d \in Domains : ncp[d] = 2

BothExecuting(tP, pP, tC, pC) ==
    /\ pc[Parent] = "phase" /\ ts[Parent] = tP /\ ph[Parent] = pP
    /\ pc[1] = "phase" /\ ts[1] = tC /\ ph[1] = pC
    /\ held[Parent] = 1 /\ held[1] = 1

\* C9 as stated: parent and child execute phase 0 of timestep 1 at the same
\* time, and later phase 1 of timestep 1; so while the parent executes a
\* phase of timestep 1, the child, at its barrier for that same phase, is
\* let through.
C9_SamePhaseTogether ==
    C9_Scenario =>
        \A p \in 0..1 :
            (/\ pc[Parent] = "phase" /\ ts[Parent] = 1 /\ ph[Parent] = p
             /\ pc[1] \in {"phaseCheck", "waiting", "woken"}
             /\ ts[1] = 1 /\ ph[1] = p) => ChildPredicate(1)

\* C9, amended: parent and child never execute the same phase of the same
\* timestep at the same time; whenever both execute, the parent is exactly
\* one phase ahead of the child.  Reachable are: the parent in phase 1 of
\* timestep 1 with the child in phase 0 of timestep 1, and later the parent
\* in phase 0 of timestep 2 with the child in phase 1 of timestep 1.
C9_ParentOnePhaseAhead ==
    C9_Scenario =>
        /\ ~BothExecuting(1, 0, 1, 0)
        /\ ~BothExecuting(1, 1, 1, 1)
        /\ (Executing(Parent) /\ Executing(1)) =>
              Started(Parent) = Started(1) + 1

C9_WitnessFirst == C9_Scenario /\ BothExecuting(1, 1, 1, 0)

C9_Witness == C9_Scenario /\ BothExecuting(2, 0, 1, 1)

\* C10: with three phases, a child at val = 2, done, is blocked while the
\* parent is at val = 2 and while the parent is at val = 0 and not done; the
\* parent passes from val = 2 to val = 0, done = false, with the children at
\* val = 2; the child passes, to val = 0, only once the parent at val = 0 is
\* done.
C10_Blocked ==
    \A c \in Children :
        (ncp[c] = 3 /\ val[c] = U32(2) /\ done[c]
            /\ pc[c] \in {"phaseCheck", "waiting", "woken"}) =>
            /\ val[Parent] \in {U32(2), U32(0)}
            /\ (val[Parent] = U32(2) \/ ~done[Parent]) => ~ChildPredicate(c)
            /\ (val[Parent] = U32(0) /\ done[Parent]) => ChildPredicate(c)

C10_Step ==
    /\ (ncp[Parent] = 3 /\ val[Parent] = U32(2) /\ Passes(Parent)) =>
          /\ \A c \in Children : val[c] = U32(2)
          /\ val'[Parent] = U32(0) /\ ~done'[Parent]
          /\ \A c \in Children : pc[c] = "waiting" => pc'[c] = "woken"
    /\ \A c \in Children :
          (ncp[c] = 3 /\ val[c] = U32(2) /\ Passes(c)) =>
              /\ val[Parent] = U32(0) /\ done[Parent]
              /\ val'[c] = U32(0)

C10_WrapAround == [][C10_Step]_vars /\ []C10_Blocked

C10_Witness ==
    /\ ncp[Parent] = 3 /\ nChild = 1
    /\ val[1] = U32(2) /\ done[1] /\ pc[1] = "waiting" /\ ts[1] = 2
    /\ val[Parent] = U32(0) /\ ~done[Parent]

\* ------------------------------------------------------------------ budget
\* sums of unsigned ints as numbers: the high limb keeps the carry
NatAdd(a, b) ==
    LET lo == a[2] + b[2]
    IN  <<a[1] + b[1] + (lo \div Half), lo % Half>>

\* C18: a parent with a child gets a pool of nProcChild + 1 permits when
\* nProcChild > 0 and of max(1, floor(nProcTotal / 2)) permits otherwise, and
\* nProcIntra = max(1, nProcTotal - poolSize + 1); a parent without children
\* gets nProcIntra = max(1, nProcTotal) and no pool.
C18_BudgetAllocation ==
    (bpc = "configured" /\ nDomains >= 1) =>
        IF nDomains = 1
        THEN /\ poolSize = NoPool
             /\ nProcIntra = (IF cfgTotal = U32(0) THEN U32(1) ELSE cfgTotal)
        ELSE /\ poolSize # NoPool
             /\ IF cfgChild # U32(0)
                THEN poolSize = NatAdd(cfgChild, U32(1))
                ELSE poolSize = (IF ULess(cfgTotal, U32(2)) THEN U32(1)
                                 ELSE UHalve(cfgTotal))
             /\ IF ULess(cfgTotal, poolSize)
                THEN nProcIntra = U32(1)
                ELSE NatAdd(nProcIntra, poolSize) = NatAdd(cfgTotal, U32(1))

\* C18: the defaults of Project::run give a parent with one child a pool
\* without any permit
C18_PoolOfZero ==
    /\ bpc = "configured" /\ nDomains = 2 /\ hardware = U32(4)
    /\ argTotal = U32(0) /\ argChild = U32(0)
    /\ cfgChild = UINT_MAX
    /\ poolSize = U32(0) /\ nProcIntra = U32(1)

\* C19: the pair handed to the parent's setConcurrency satisfies
\* nProcTotal <= hardware_concurrency - 1 and nProcChild < nProcTotal,
\* whatever pair of unsigned ints the run was given (on a machine that
\* reports at least one hardware thread).
C19_Clamped ==
    (bpc \in {"checked", "configured"} /\ nDomains >= 1
        /\ ULess(U32(0), hardware)) =>
        /\ ULess(cfgTotal, hardware)
        /\ ULess(cfgChild, cfgTotal)

\* C19: the defaults of Project::run leave nProcChild at 2^32 - 1
C19_DefaultsWrap ==
    /\ bpc = "checked" /\ nDomains = 2 /\ hardware = U32(4)
    /\ argTotal = U32(0) /\ argChild = U32(0)
    /\ cfgTotal = U32(0) /\ cfgChild = UINT_MAX

\* -------------------------------------------------------------- sequential
\* C11: the worker of a parent without children runs its phases one after
\* the other: it never is inside phaseCheck or completePhase, uses no permit
\* and no mutex, leaves its control point as constructed, has a step to take
\* as long as it has not finished, and with two phases and three timesteps
\* it ends with the calls f0(1), f1(1), f0(2), f1(2), f0(3), f1(3).
C11_SequentialRun ==
    nChild = 0 =>
        /\ pc[Parent] \in {"start", "sequential", "done"}
        /\ nProcs = 0 /\ remaining = 0 /\ held[Parent] = 0
        /\ mtxOwner = NoOwner
        /\ val[Parent] = InitialVal /\ done[Parent]
        /\ pc[Parent] # "done" => ENABLED Worker(Parent)
        /\ \A i \in 1..Len(calls[Parent]) :
              calls[Parent][i] =
                  <<(i - 1) % ncp[Parent], ((i - 1) \div ncp[Parent]) + 1>>
        /\ (pc[Parent] = "done" /\ ncp[Parent] = 2 /\ nts = 3) =>
              calls[Parent] = << <<0, 1>>, <<1, 1>>, <<0, 2>>, <<1, 2>>,
                                 <<0, 3>>, <<1, 3>> >>

C11_Witness ==
    /\ nChild = 0 /\ ncp[Parent] = 2 /\ nts = 3
    /\ pc[Parent] = "done" /\ Len(calls[Parent]) = 6

\* ------------------------------------------------------ the run of a Project
AllInitialized == \A i \in Listed : status[i] = "initialized"
SomeThread == \E i \in Listed : thread[i] # "none"
ParamsAgree ==
    \A i \in Listed : ntsOf[i] = ntsOf[1] /\ phasesOf[i] = phasesOf[1]

C13_FinalWhenConfigured ==
    [][configured # {} => phasesOf' = phasesOf]_vars

\* C13: the phases are registered by the hooks instantiateMembers and
\* doInitialize, which run after the concurrency configuration and before
\* any worker exists; once a worker exists every phase count equals the
\* nPhases of the project and no phase count changes any more.
C13_RegistrationStep ==
    phasesOf' # phasesOf =>
        /\ stage \in {"instantiateMembers", "initialize"}
        /\ \A j \in Listed : Domain_isParent(j) => j \in configured
        /\ ~SomeThread
C13_FinalWhenSpawned ==
    SomeThread => \A j \in Listed : phasesOf[j] = projNPhases
C13_FinalBeforeWorkers ==
    [][C13_RegistrationStep]_vars /\ []C13_FinalWhenSpawned

C13_Witness ==
    /\ 1 \in configured /\ phasesOf[1] = 2 /\ thread[1] = "running"

\* C14: when two domains report different nts or different numbers of
\* phases, processTimesteppingParams ends the process, and no worker was
\* spawned and no phase called; when all agree, the run goes on with the
\* project's nts and nPhases equal to the common values.
C14_ParamsStep ==
    stage = "processTimesteppingParams" =>
        IF ParamsAgree
        THEN /\ stage' = "spawn"
             /\ projNts' = ntsOf[1] /\ projNPhases' = phasesOf[1]
        ELSE stage' = "exit"
C14_NoWorkerOnMismatch ==
    /\ (AllInitialized /\ Len(table) > 0 /\ ~ParamsAgree) =>
          /\ stage \in {"processTimesteppingParams", "exit"}
          /\ \A i \in Listed : thread[i] = "none" /\ ~invoked[i]
    /\ stage \in {"spawn", "join", "postProcess", "finished"} =>
          \A i \in Listed :
              projNts = ntsOf[i] /\ projNPhases = phasesOf[i]
C14_TimesteppingMismatch ==
    [][C14_ParamsStep]_vars /\ []C14_NoWorkerOnMismatch

C14_Witness ==
    /\ stage = "exit" /\ AllInitialized /\ Len(table) = 2
    /\ ntsOf[1] = ntsOf[2] /\ phasesOf[1] # phasesOf[2]

\* C15: with more than one domain without a parent the run ends in
\* check_multipleParents, before setConcurrency is called on any domain: no
\* domain points to a Pool and no worker exists; with exactly one such
\* domain the run goes on to configure the concurrency.
Parentless == {i \in Listed : table[i] = NullDomain}
C15_CheckStep ==
    stage = "check_multipleParents" =>
        IF Cardinality(Parentless) > 1
        THEN stage' = "exit"
        ELSE stage' = "setConcurrency"
C15_NothingCreated ==
    Cardinality(Parentless) > 1 =>
        /\ stage \in {"setDomainHierarchy", "check_multipleParents", "exit"}
        /\ configured = {}
        /\ \A i \in Listed : threadPool[i] = NullDomain /\ thread[i] = "none"
C15_SingleParent ==
    [][C15_CheckStep]_vars /\ []C15_NothingCreated

C15_Witness ==
    /\ stage = "exit" /\ table = <<0, 1, 0>>
    /\ \A i \in Listed : hierarchySet[i]

\* C17: once setDomainHierarchy has run, the hierarchy of every domain is
\* set, the parent handle of a domain is the one the hierarchy table names,
\* isParent holds exactly for the domains without a parent handle and
\* isChild for the others, every child is exactly once in the child list
\* of its parent and nowhere else, and setParent on a domain that has a
\* parent calls Report::error.
C17_HierarchySet ==
    (stage \notin {"off", "setDomainHierarchy"}) =>
        \A i \in Listed :
            /\ hierarchySet[i]
            /\ parentOf[i] = table[i]
            /\ Domain_isParent(i) <=> table[i] = NullDomain
            /\ Domain_isChild(i) <=> ~Domain_isParent(i)
            /\ \A p \in Listed :
                  Cardinality({k \in 1..Len(childDomains[p]) :
                                  childDomains[p][k] = i})
                      = (IF parentOf[i] = p THEN 1 ELSE 0)
            /\ parentOf[i] # NullDomain =>
                  \A pd \in Listed : setParent(i, pd) = ReportError

C17_Witness ==
    /\ stage = "check_multipleParents" /\ table = <<0, 1, 1>>
    /\ childDomains[1] = <<2, 3>> /\ parentOf[3] = 1

\* ------------------------------------------------------ the domains list
\* C16: a row whose domainID or outputDir is the one of a domain of the
\* project ends the process and leaves the domains list as it was; so the
\* ids of the domains of a project are pairwise distinct, and so are their
\* output directories.
C16_RowStep ==
    (cstage = "processDomainsList" /\ cstage' # "constructed") =>
        IF \E k \in 1..Len(domains) :
               \/ domains[k].id = row'.domainID
               \/ domains[k].outputDir = row'.outputDir
        THEN cstage' = "exit" /\ domains' = domains
        ELSE cstage' = "exit" \/
             domains' = Append(domains, [id |-> row'.domainID,
                                         outputDir |-> row'.outputDir])
C16_Distinct ==
    \A j, k \in 1..Len(domains) :
        j # k => /\ domains[j].id # domains[k].id
                 /\ domains[j].outputDir # domains[k].outputDir
C16_NoDuplicates == [][C16_RowStep]_vars /\ []C16_Distinct

C16_Witness ==
    /\ cstage = "exit" /\ Len(domains) = 1
    /\ row.domainID # domains[1].id /\ row.outputDir = domains[1].outputDir
    /\ row.parentID = NoID

\* ------------------------------------------------------------------- grid
\* C20: every stored unit has as pos the index it is stored at, id2pos maps
\* its id to that index, and no two stored units have the same pos.
C20_PositionsMatch ==
    gstage = "grid" =>
        /\ \A k \in 1..Len(units) :
              /\ unitPos[units[k]] = k - 1
              /\ id2pos[getID(units[k])] = k - 1
        /\ \A j, k \in 1..Len(units) :
              j # k => unitPos[units[j]] # unitPos[units[k]]

\* C20: insert 1, insert 2, remove 1, insert 3: unit 3 is stored at index 1
\* with the vacant position 0, which unit 2 has too
C20_VacantReused ==
    /\ gstage = "grid" /\ units = <<2, 3>>
    /\ unitPos[2] = 0 /\ unitPos[3] = 0 /\ id2pos[3] = 0
    /\ nOps = 4

\* ------------------------------------------------------------ grid units
\* C21: in every state of a grid, insertUnit(u) immediately followed by
\* removeUnit(u) succeeds: the position of u is confirmed, the sequence has
\* the length and every other unit the pos it had before the insert, and the
\* position u had is on the vacant list.
C21_InsertThenRemove ==
    [][\A u \in Units \cup Copies :
          insertUnit(u) =>
              /\ (confirmUnitPosition(u))'
              /\ Len(units) = (Len(removeUnit_members(u).units))'
              /\ \A o \in Stored :
                    unitPos[o] = (removeUnit_members(u).unitPos)'[o]
              /\ \E k \in 1..(Len(vpos') + 1) :
                    (removeUnit_members(u).vpos)'[k] = unitPos'[u]]_vars

\* C21: insert 1, insert 2, remove 1, insert 3, remove 3: unit 3 is stored
\* at index 1 with pos 0 and removeUnit(3) ends in Report::error
C21_RemovalRefused ==
    /\ gstage = "exit" /\ units = <<2, 3>> /\ unitPos[3] = 0
    /\ vpos = <<>> /\ nOps = 5

\* ---------------------------------------------------------------- patches
\* a call of insertUnit, removeUnit or copyFromParent that returns
GridMutation ==
    /\ gstage' = "grid"
    /\ \/ \E unit \in Units : InsertUnit(unit)
       \/ \E unit \in Units \cup Copies : removeUnit(unit)
       \/ \E parentPosition \in ParentPositions :
              copyFromParent(parentPosition)

\* C22: every insertUnit, removeUnit and copyFromParent that returns turns
\* each patch of the grid that was up to date into upToDate = false,
\* locked = true, and leaves the patches that were not up to date as they
\* were; so no patch is up to date after the call.
C22_PatchesInvalidated ==
    [][GridMutation =>
          /\ Len(patches') = Len(patches)
          /\ \A k \in 1..Len(patches) :
                /\ ~patches'[k].upToDate
                /\ IF patches[k].upToDate
                   THEN /\ patches'[k].locked
                        /\ patches'[k].id = patches[k].id
                   ELSE patches'[k] = patches[k]]_vars

\* C22: of two patches the first was validated and then invalidated by a
\* removeUnit, the second was never up to date
C22_Witness ==
    /\ gstage = "grid" /\ Len(patches) = 2
    /\ patches[1] = [id |-> 0, upToDate |-> FALSE, locked |-> TRUE]
    /\ patches[2] = [id |-> 1, upToDate |-> FALSE, locked |-> FALSE]
    /\ units = <<>> /\ vpos = <<0>>

\* ------------------------------------------------------------- child grid
\* C23: on a child grid, for every child position childPos with
\* cp2pp[childPos] = parentPos, pp2cp[parentPos] = childPos and the unit
\* stored at childPos is the copy of the parent unit at parentPos.
C23_MappingsAgree ==
    (gstage = "grid" /\ isChild) =>
        \A childPos \in DOMAIN cp2pp :
            /\ cp2pp[childPos] \in DOMAIN pp2cp
            /\ pp2cp[cp2pp[childPos]] = childPos
            /\ childPos + 1 \in 1..Len(units)
            /\ isCopy(units[childPos + 1])
            /\ parentPos(units[childPos + 1]) = cp2pp[childPos]

\* C23: copyFromParent of the parent unit at position 0, twice: the child
\* positions 0 and 1 both map to the parent position 0, which maps to 1
C23_CopiedTwice ==
    /\ gstage = "grid" /\ isChild
    /\ units = <<Copy(0, 1), Copy(0, 2)>>
    /\ cp2pp = [childPos \in {0, 1} |-> 0]
    /\ pp2cp = [parentPosition \in {0} |-> 1]

\* ------------------------------------------------------------- patch ids
\* C24: removePatch of the patch addPatch returned last leaves one patch
\* less and the id of the removed patch on the list of vacant patch ids.
C24_IdReturned ==
    [][removePatch(Len(patches)) =>
          /\ Len(patches') = Len(patches) - 1
          /\ \E i \in 1..Len(vpids') :
                vpids'[i] = patches[Len(patches)].id]_vars

\* C24: addPatch twice, removePatch of the first, addPatch: the vacant list
\* is empty and the new patch has the id 1 the other patch has
C24_IdTakenTwice ==
    /\ gstage = "grid" /\ nOps = 4 /\ vpids = <<>>
    /\ Len(patches) = 2 /\ patches[1].id = 1 /\ patches[2].id = 1

\* C25: every patch of a grid that is not up to date is locked.
C25_NotUpToDateLocked ==
    \A k \in 1..Len(patches) : ~patches[k].upToDate => patches[k].locked

\* C25: the patch addPatch has just returned: not up to date, not locked
C25_FreshPatch ==
    /\ gstage = "grid" /\ nOps = 1
    /\ patches = <<[id |-> 0, upToDate |-> FALSE, locked |-> FALSE]>>

\* ------------------------------------------------------ units of a patch
\* the units that were included in the patch and are no longer in it
Excluded ==
    {u \in PatchUnits : /\ unitData[u].patchID = patchId
                        /\ \A i \in 1..Len(unitptrs) : unitptrs[i] # u}

\* C26: after any calls of insertUnitPtr and removeUnitPtr on one patch
\* that all returned, the pointer at index i of the patch points to a unit
\* with patchPos = i, the patchID of the patch and active = true, every unit
\* taken out of the patch is inactive, and no unit is in the patch twice.
C26_PatchUnits ==
    ustage = "patch" =>
        /\ \A i \in 1..Len(unitptrs) :
              /\ unitData[unitptrs[i]].patchPos = i - 1
              /\ unitData[unitptrs[i]].patchID = patchId
              /\ unitData[unitptrs[i]].active
        /\ \A u \in Excluded : ~unitData[u].active
        /\ \A i, j \in 1..Len(unitptrs) :
              i # j => unitptrs[i] # unitptrs[j]

\* C26: units 1 and 2 were included and unit 1 taken out again
C26_Witness ==
    /\ ustage = "patch" /\ unitptrs = <<2>> /\ Excluded = {1}
    /\ unitData[2].patchPos = 0

\* --------------------------------------------------------- unit lifecycle
\* C27: activate(ts) on an inactive unit sets active = true and
\* activationTimestep = ts; activate on an active unit and deactivate on an
\* inactive unit end in the fatal error and leave the unit as it was; every
\* call that returns flips active, so the calls that return alternate; the id
\* of a unit never changes.
C27_Lifecycle ==
    [][\A u \in PatchUnits :
          /\ \A step \in Timesteps :
                Activate(u, step) =>
                    IF unitData[u].active
                    THEN ustage' = "exit" /\ unitData' = unitData
                    ELSE /\ ustage' = "unit"
                         /\ unitData'[u].active
                         /\ unitData'[u].activationTimestep = step
          /\ Deactivate(u) =>
                IF ~unitData[u].active
                THEN ustage' = "exit" /\ unitData' = unitData
                ELSE ustage' = "unit" /\ ~unitData'[u].active
          /\ unitData'[u].id = unitData[u].id
          /\ \/ unitData'[u] = unitData[u]
             \/ unitData'[u].active # unitData[u].active]_vars

\* C27: unit 1 was activated at timestep 2, unit 2 was activated at timestep
\* 0 and deactivated, and a call on one of them then ended in the fatal error
C27_Witness ==
    /\ ustage = "exit"
    /\ unitData[1].active /\ unitData[1].activationTimestep = 2
    /\ ~unitData[2].active /\ unitData[2].initiallyActive

\* ----------------------------------------------------------- unit handles
\* C28: when revalidate of the cref of a unit returns, the cref and every
\* mref that exists and was made for that unit (from the cref, from another
\* mref, by move construction or move assignment) hold the new address.
C28_Revalidated ==
    [][\A c \in Crefs :
          (revalidate(c) /\ hstage' = "handles") =>
              /\ crefs'[c].unitPtr = Relocated(crefs[c].unitPtr)
              /\ \A m \in Mrefs :
                    (mrefs'[m].live /\ mrefs'[m].unit = crefs[c].unit) =>
                        mrefs'[m].unitPtr = crefs'[c].unitPtr]_vars

\* C28: an mref was copied from the cref of unit 1, which was never moved,
\* and the copy of that mref ended the program in root->addDuplicate
C28_NullRoot ==
    /\ hstage = "crashed" /\ nHandleOps = 2
    /\ crefs[1].root = NullPtr /\ crefs[1].duplicates = <<1>>
    /\ mrefs[1].live /\ mrefs[1].root = NullPtr /\ ~mrefs[2].live

\* C29: the list of duplicates of every cref that exists holds exactly the
\* mrefs that exist and were made for the unit of the cref, each once: no
\* mref that was destroyed or moved from, and no mref that move assignment
\* has made a handle of another unit.
C29_ListsExact ==
    hstage = "handles" =>
        \A c \in LiveCrefs :
            /\ \A i \in 1..Len(crefs[c].duplicates) :
                  /\ mrefs[crefs[c].duplicates[i]].live
                  /\ mrefs[crefs[c].duplicates[i]].unit = crefs[c].unit
                  /\ \A j \in 1..Len(crefs[c].duplicates) :
                        i # j =>
                            crefs[c].duplicates[i] # crefs[c].duplicates[j]
            /\ \A m \in LiveMrefs :
                  mrefs[m].unit = crefs[c].unit =>
                      \E i \in 1..Len(crefs[c].duplicates) :
                          crefs[c].duplicates[i] = m

\* C29: an mref was copied from the cref of unit 1 and destroyed: the list
\* of the cref still holds the pointer to it
C29_DestroyedListed ==
    /\ hstage = "handles" /\ nHandleOps = 2
    /\ crefs[1].live /\ crefs[1].duplicates = <<1>> /\ ~mrefs[1].live

\* ------------------------------------------------- control points, mutex
\* C30: in concurrent timestepping a worker holds the mutex of the parent
\* whenever it writes val or done of a control point and whenever it
\* evaluates a wait predicate; while a control point has its new val and
\* still its old done, its owner holds the mutex and no other worker is
\* evaluating a predicate.
C30_UnderMutex ==
    [][\A d \in Domains :
          /\ (val'[d] # val[d] \/ done'[d] # done[d]) => mtxOwner = d
          /\ ReadPredicate(d) => mtxOwner = d
          /\ pc'[d] = "incrementDone" =>
                /\ mtxOwner' = d
                /\ \A e \in Domains \ {d} : pc'[e] # "predicate"]_vars

\* C30: the parent has advanced val and not yet cleared done in its second
\* increment, while a child is about to lock the mutex for its predicate
C30_Witness ==
    /\ pc[Parent] = "incrementDone" /\ done[Parent]
    /\ val[Parent] = U32(1) /\ mtxOwner = Parent
    /\ \E c \in Children : pc[c] \in {"phaseCheck", "woken"}

\* ------------------------------------------------------- suspension points
\* the worker of d cannot take its next step: it is inside a wait of a
\* condition variable, or the std::unique_lock on *mtx it constructs (in
\* phaseCheck, inside condition->wait after a wakeup, in completePhase)
\* cannot return because another worker holds *mtx
Blocked(d) ==
    \/ pc[d] \in {"waiting", "poolWait"}
    \/ pc[d] \in {"phaseCheck", "woken", "markDone"} /\ mtxOwner # NoOwner

\* C31: a worker is blocked only inside phaseCheck, for its barrier
\* predicate, or inside Pool::acquire, for a permit; a worker inside
\* completePhase is never blocked, and no worker waits for a permit while it
\* holds the mutex of the barrier.
C31_SuspensionPoints ==
    Concurrent =>
        \A d \in Domains :
            /\ Blocked(d) =>
                  pc[d] \in {"phaseCheck", "waiting", "woken", "poolWait"}
            /\ pc[d] = "markDone" => ~Blocked(d)
            /\ pc[d] = "poolWait" => mtxOwner # d

\* C31: a child waits for a permit inside Pool::acquire with *mtx locked,
\* while the other child, back from its phase, cannot lock *mtx in
\* completePhase
C31_BlockedInCompletePhase ==
    /\ nChild = 2 /\ nProcs = 1 /\ remaining = 1
    /\ pc[1] = "markDone" /\ Blocked(1)
    /\ pc[2] = "acquire" /\ mtxOwner = 2
    /\ pc[Parent] = "woken"

\* ------------------------------------------------------ phases started
\* C32: in a concurrent run the parent has passed as many barriers as each
\* child or one more: no child overtakes the parent and the parent is never
\* more than one phase ahead of a child.
C32_OnePhaseApart ==
    Concurrent =>
        \A c \in Children :
            /\ 0 <= Started(Parent) - Started(c)
            /\ Started(Parent) - Started(c) <= 1

\* C32: with one phase per domain the parent has passed the barriers of two
\* timesteps while a child has passed none
C32_ParentRunsAhead ==
    /\ nChild >= 1 /\ ncp[Parent] = 1 /\ nts = 2
    /\ Started(Parent) = 2 /\ pc[Parent] = "phase"
    /\ pc[1] = "waiting" /\ Started(1) = 0

\* ------------------------------------------- the disjuncts of the child
\* C33: with two or more phases, whenever a child evaluates its wait
\* predicate the gap to the parent is 0 or 1, so the disjunct gap > 1 is
\* false; the predicate is true only by gap = 1 with the parent done, and a
\* child that has passed finds the phase it is about to start completed by
\* the parent.
C33_FirstDisjunctFalse ==
    \A c \in Children :
        ncp[c] >= 2 =>
            /\ pc[c] = "predicate" =>
                  /\ ~(Gap(ncp[c], val[Parent], val[c]) > 1)
                  /\ ChildPredicate(c) =>
                        /\ Gap(ncp[c], val[Parent], val[c]) = 1
                        /\ done[Parent]
            /\ pc[c] = "incrementVal" => Completed(Parent) > Completed(c)

\* C33: a child evaluates its predicate for the first phase of the second
\* timestep of three phases and passes by the second disjunct
C33_Witness ==
    /\ nChild = 2 /\ ncp[1] = 3
    /\ pc[1] = "predicate" /\ ts[1] = 2 /\ ph[1] = 0
    /\ Gap(ncp[1], val[Parent], val[1]) = 1 /\ done[Parent]
    /\ val[1] = U32(2) /\ val[Parent] = U32(0)

\* ------------------------------------------------------------ one phase
\* C34: a run of a parent with at least one child in which every domain
\* registers exactly one phase terminates: under fair scheduling every
\* worker leaves its timestepping loop, each child having passed its
\* phaseCheck and executed its phase in every timestep.
C34_OnePhaseTerminates ==
    (Concurrent /\ ncp[Parent] = 1 /\ nProcs >= 1) ~>
        (AllDone /\ \A c \in Children : Len(calls[c]) = nts)

\* C34: the parent has finished all its timesteps while a child still waits
\* at its first barrier, its predicate false for good
C34_ChildHangs ==
    /\ nChild >= 1 /\ ncp[Parent] = 1 /\ nProcs >= 1
    /\ pc[Parent] = "done" /\ Len(calls[Parent]) = nts
    /\ \A c \in Children :
          /\ pc[c] = "waiting" /\ calls[c] = <<>>
          /\ Gap(ncp[c], val[Parent], val[c]) = 0 /\ ~ChildPredicate(c)

\* ----------------------------------------------------- permits of the Pool
\* C35: whatever pair of unsigned ints Project::run is given, the defaults
\* (0, 0) included, the Pool of a parent with at least one child is created
\* with at least one permit.
C35_PoolHasPermit ==
    (bpc = "configured" /\ nDomains >= 2) =>
        /\ poolSize # NoPool
        /\ ULess(U32(0), poolSize)

\* C35: run(0, 0) on a parent with two children: nProcChild + 1 has wrapped
\* to 0 and the Pool has no permit
C35_NoPermit ==
    /\ bpc = "configured" /\ nDomains = 3 /\ hardware = U32(2)
    /\ argTotal = U32(0) /\ argChild = U32(0)
    /\ UAdd(cfgChild, U32(1)) = U32(0)
    /\ poolSize = U32(0)

\* ------------------------------------------------ the initial val
\* C36: val starts as the all-ones unsigned int, which is not ncp - 1; for
\* two or more phases it acts as ncp - 1 would: the first increment yields
\* 0, a parent that has not passed sees gap 0 to a child that has not
\* passed, a parent that has passed once sees gap 1 to it, and so does that
\* child.
C36_ActsAsLastPhase ==
    \A d \in Domains :
        ncp[d] >= 2 =>
            LET n == ncp[d]
                last == U32(n - 1)
            IN  /\ InitialVal = <<Half - 1, Half - 1>> /\ InitialVal # last
                /\ increment(InitialVal, n) = U32(0)
                /\ increment(last, n) = U32(0)
                /\ Gap(n, InitialVal, InitialVal) = 0
                /\ Gap(n, last, last) = 0
                /\ Gap(n, U32(0), InitialVal) = 1
                /\ Gap(n, U32(0), last) = 1
                /\ (Concurrent /\ Started(d) = 0) => val[d] = InitialVal
                /\ (Concurrent /\ Started(d) = 1) => val[d] = U32(0)
                /\ (d \in Children /\ Started(d) = 0) =>
                      /\ Started(Parent) \in {0, 1}
                      /\ Gap(n, val[Parent], val[d]) = Started(Parent)

\* C36: with three phases the parent has made its first increment and a
\* child, still at the initial val, evaluates its predicate at gap 1
C36_Witness ==
    /\ nChild >= 1 /\ ncp[Parent] = 3
    /\ val[Parent] = U32(0) /\ done[Parent] /\ Started(Parent) = 1
    /\ val[1] = InitialVal /\ pc[1] = "woken"
    /\ Gap(ncp[1], val[Parent], val[1]) = 1 /\ ChildPredicate(1)

\* ------------------------------------------- primitives of the children
\* C37: once setDomainConcurrency has run on a project with one parentless
\* domain, every domain that has a parent handle points to the Pool (and
\* with it the mutex and the condition variable) of its parent, and its
\* ControlPoint is exactly once in the childCPs of its parent; also when a
\* child has a child of its own.
C37_ChildrenConfigured ==
    (stage \in {"instantiateMembers", "readInputs", "initialize",
                "processTimesteppingParams", "spawn", "join", "postProcess",
                "finished"}) =>
        \A i \in Listed :
            Domain_isChild(i) =>
                /\ threadPool[i] # NullDomain
                /\ threadPool[i] = threadPool[parentOf[i]]
                /\ Cardinality({k \in 1..Len(childCPs[parentOf[i]]) :
                                   childCPs[parentOf[i]][k] = i}) = 1

\* C37: three levels: setConcurrency was called on the parent and on its
\* child, never on the child of the child, whose pointers are null and
\* whose ControlPoint nobody registered
C37_GrandchildSkipped ==
    /\ stage = "instantiateMembers" /\ table = <<0, 1, 2>>
    /\ configured = {1, 2} /\ threadPool[2] = 1 /\ childCPs[1] = <<2>>
    /\ parentOf[3] = 2 /\ threadPool[3] = NullDomain /\ childCPs[2] = <<>>

\* ------------------------------------------------ overlap of the phases
\* C38: the parent's predicate is a matter of the vals alone: it holds
\* exactly when every child is level with the parent, whether or not the
\* children are done.  So the parent executes a phase while a child still
\* executes the one before, one phase behind and not done, and two children
\* execute at the same time, in the same phase or one phase apart.
C38_BarrierIgnoresDone ==
    Concurrent =>
        /\ ParentPredicate <=>
              \A c \in Children : Gap(ncp[Parent], val[Parent], val[c]) = 0
        /\ \A c \in Children :
              (Executing(Parent) /\ Executing(c)) =>
                  Started(Parent) = Started(c) + 1 /\ ~done[c]
        /\ \A c, e \in Children :
              (Executing(c) /\ Executing(e)) =>
                  Started(c) - Started(e) \in {0 - 1, 0, 1}

\* C38: with a pool of two permits the parent executes its third phase while
\* a child, not done, still executes its second
C38_Witness ==
    /\ nProcs = 2 /\ ncp[Parent] = 3
    /\ Executing(Parent) /\ Len(calls[Parent]) = 2
    /\ Executing(1) /\ Len(calls[1]) = 1 /\ ~done[1]

\* C38: with a pool of two permits both children execute the second phase
\* of the first timestep at the same time
C38_ChildrenTogether ==
    /\ nProcs = 2 /\ nChild = 2
    /\ \A c \in Children :
          Executing(c) /\ held[c] = 1 /\ ts[c] = 1 /\ ph[c] = 1

\* ---------------------------------------------------- patch ids, distinct
\* C39: after any calls of addPatch and removePatch no two patches of the
\* grid have the same id: an id names at most one patch.
C39_PatchIdsDistinct ==
    \A id \in 0..MaxPatches :
        Cardinality({k \in 1..Len(patches) : patches[k].id = id}) <= 1

\* C39: after addPatch, addPatch, removePatch of the first and addPatch,
\* two patches answer to one id; removePatch of the second would erase the
\* first
C39_TwoPatchesOneId ==
    /\ gstage = "grid" /\ Len(patches) = 2
    /\ patches[1].id = patches[2].id
    /\ FirstWithID(patches[2].id) = 1
    /\ \A k \in 1..Len(patches) : patches[k].id # 0

\* ------------------------------------------------------------ unitExists
\* Grid::unitExists: the id is a key of id2pos
unitExists(id) == id \in DOMAIN id2pos

\* C40: after any calls of insertUnit and removeUnit, unitExists holds
\* exactly for the ids of the units stored in the vector; so it is false
\* for the id of a unit that removeUnit has removed.
C40_ExistsIffStored ==
    gstage = "grid" =>
        \A u \in Units \cup Copies :
            unitExists(getID(u)) <=>
                \E k \in 1..Len(units) : getID(units[k]) = getID(u)

\* C40: insertUnit(u1), removeUnit(u1): the vector is empty, the position
\* of u1 is vacant and unitExists(u1.id) still answers true
C40_RemovedStillExists ==
    /\ gstage = "grid" /\ nOps = 2
    /\ units = <<>> /\ vpos = <<0>> /\ unitPos[1] = 0
    /\ unitExists(getID(1)) /\ id2pos[getID(1)] = 0

=============================================================================
